---- MODULE Spec2Model ----
(***************************************************************************)
(* Model of the ESP32 MOSFET characterisation firmware: the sweep          *)
(* controller (MOSFETController), its background worker task, the HTTP     *)
(* start/cancel handlers, the FFat measurement directory and the DAC       *)
(* outputs.  Voltages are integers in millivolts.  Strings that the code   *)
(* inspects character by character are sequences of one-character strings.*)
(***************************************************************************)
EXTENDS Integers, Sequences, FiniteSets, TLC

(* ------------------------------------------------------------------ *)
(* Bounds of the model                                                  *)
(* ------------------------------------------------------------------ *)
\* task slots FreeRTOS can host for "MOS_Measure" before xTaskCreate fails
NumWorkers == 2
\* seconds the clock is let advance
MaxClock == 1
\* samples one worker may take (caps the sweeps that never terminate)
MaxSamples == 2

(* ------------------------------------------------------------------ *)
(* Program constants                                                    *)
(* ------------------------------------------------------------------ *)
MaxVoltage_mV == 5000
DAC_VREF_mV == 3300
DAC_MAX_VALUE == 255
MinFreeBytes == 10240
MAX_STORAGE_USAGE_PCT == 80
MaxFilenameLen == 100
TimeSyncThreshold == 1600000000
MAX_FILES == 200
LOG_QUEUE_DEPTH == 64
MAX_LOGS == 50
INT_MAX == 2147483647
INT_MIN == (0 - INT_MAX) - 1

(* ------------------------------------------------------------------ *)
(* Integer helpers                                                      *)
(* ------------------------------------------------------------------ *)
Abs(x) == IF x < 0 THEN -x ELSE x

\* C++ conversion/division: truncation toward zero (b # 0)
TruncDiv(a, b) ==
  IF b = INT_MIN THEN (IF a = INT_MIN THEN 1 ELSE 0)
  ELSE LET q == Abs(a) \div Abs(b)
       IN  IF (a < 0) = (b < 0) THEN q ELSE 0 - q

\* int multiplication with 32-bit two's complement wrap-around; the only
\* operand of the model large enough to wrap is INT_MIN = -2^31
Mul32(a, b) ==
  IF a = INT_MIN THEN (IF b % 2 = 0 THEN 0 ELSE INT_MIN)
  ELSE IF b = INT_MIN THEN (IF a % 2 = 0 THEN 0 ELSE INT_MIN)
  ELSE a * b

(* ------------------------------------------------------------------ *)
(* Strings as character sequences                                       *)
(* ------------------------------------------------------------------ *)
DigitChars == <<"0","1","2","3","4","5","6","7","8","9">>
Letters == {"a","b","c","d","e","f","g","h","i","j","k","l","m","n","o","p",
            "q","r","s","t","u","v","w","x","y","z",
            "A","B","C","D","E","F","G","H","I","J","K","L","M","N","O","P",
            "Q","R","S","T","U","V","W","X","Y","Z"}
isalnum(c) == c \in Letters \/ c \in {DigitChars[i] : i \in 1..10}

CsvExt == <<".","c","s","v">>

\* String(unsigned long): decimal digits, most significant first
RECURSIVE ToDecimal(_)
ToDecimal(n) ==
  IF n < 10 THEN <<DigitChars[n + 1]>>
  ELSE ToDecimal(n \div 10) \o <<DigitChars[(n % 10) + 1]>>

\* String::endsWith
endsWith(s, suf) ==
  /\ Len(s) >= Len(suf)
  /\ SubSeq(s, Len(s) - Len(suf) + 1, Len(s)) = suf

\* String::indexOf(sub) != -1
Contains(s, sub) ==
  \E i \in 1..(Len(s) - Len(sub) + 1) : SubSeq(s, i, i + Len(sub) - 1) = sub

\* the validation without its loop over the characters
isValidFilename_NoCharLoop(filename) ==
  /\ ~(Len(filename) = 0 \/ Len(filename) > MaxFilenameLen)
  /\ ~Contains(filename, <<".", ".">>)
  /\ ~Contains(filename, <<"/">>)
  /\ ~Contains(filename, <<"\\">>)
  /\ endsWith(filename, CsvExt)

\* FileManager::isValidFilename
isValidFilename(filename) ==
  /\ ~(Len(filename) = 0 \/ Len(filename) > MaxFilenameLen)
  /\ ~Contains(filename, <<".", ".">>)
  /\ ~Contains(filename, <<"/">>)
  /\ ~Contains(filename, <<"\\">>)
  /\ \A i \in 1..Len(filename) :
        isalnum(filename[i]) \/ filename[i] \in {"_", "-", "."}
  /\ endsWith(filename, CsvExt)

\* basename + "_" + String(now) + ".csv", a trailing ".csv" of the base removed
GenFilename(base, now) ==
  LET stripped == IF endsWith(base, CsvExt)
                  THEN SubSeq(base, 1, Len(base) - 4) ELSE base
  IN  stripped \o <<"_">> \o ToDecimal(now) \o CsvExt

(* ------------------------------------------------------------------ *)
(* Inputs                                                               *)
(* ------------------------------------------------------------------ *)
MkConfig(g, d, rs, mode, base) ==
  [ vgs_start |-> g[1], vgs_end |-> g[2], vgs_step |-> g[3],
    vds_start |-> d[1], vds_end |-> d[2], vds_step |-> d[3],
    rshunt |-> rs, sweep_mode |-> mode, filename |-> base ]

\* ranges <<start, end, step>> in mV
TwoPoints == <<0, 1000, 1000>>
OnePoint == <<0, 0, 1000>>

\* configurations whose ranges are within 0..5 V with positive steps
ValidConfigs ==
  { MkConfig(TwoPoints, OnePoint, 100, "SWEEP_VGS", <<"r">>),
    MkConfig(TwoPoints, OnePoint, 100, "SWEEP_VDS", <<"r", ".", "c", "s", "v">>),
    \* shunt resistance 0
    MkConfig(TwoPoints, OnePoint, 0, "SWEEP_VGS", <<"r">>) }

\* configurations with a voltage outside 0..5 V
OutOfEnvelopeConfigs ==
  { MkConfig(<<0 - 1000, 1000, 1000>>, OnePoint, 100, "SWEEP_VGS", <<"r">>),
    MkConfig(<<0, 6000, 1000>>, OnePoint, 100, "SWEEP_VGS", <<"r">>),
    MkConfig(TwoPoints, <<0, 6000, 1000>>, 100, "SWEEP_VGS", <<"r">>) }

\* configurations with a step that is not positive
BadStepConfigs ==
  { MkConfig(<<0, 1000, 0>>, OnePoint, 100, "SWEEP_VGS", <<"r">>),
    MkConfig(<<0, 1000, 0 - 500>>, OnePoint, 100, "SWEEP_VGS", <<"r">>) }

\* configurations whose generated filename is not valid (a space in the base)
BadNameConfigs ==
  { MkConfig(TwoPoints, OnePoint, 100, "SWEEP_VGS", <<"a", " ", "b">>) }

\* the configurations a request body is drawn from: in the core
\* specification, and in the specification of all inputs
CoreConfigs == ValidConfigs \cup OutOfEnvelopeConfigs
AllConfigs == CoreConfigs \cup BadStepConfigs \cup BadNameConfigs

\* "timestamp" of the request body; 0 stands for an absent one
NoTimestamp == {0}
Timestamps == {0, TimeSyncThreshold + 1}
\* FFat.totalBytes() and FFat.usedBytes(): a partition with less than 10 KB
\* free at 75 % used, and one with 20 KB free that is one byte below 80 %
\* used, exactly 80 % used, one byte above
FFatLevels ==
  { [totalBytes |-> 40960, usedBytes |-> 31000],
    [totalBytes |-> 102400, usedBytes |-> 81919],
    [totalBytes |-> 102400, usedBytes |-> 81920],
    [totalBytes |-> 102400, usedBytes |-> 81921] }

\* a partition that passes the capacity check, and one that fails it
CoreLevels ==
  { [totalBytes |-> 102400, usedBytes |-> 81919],
    [totalBytes |-> 40960, usedBytes |-> 31000] }

\* a partition with nothing stored, before the first request
EmptyFFat == [totalBytes |-> 102400, usedBytes |-> 0]

\* SweepConfig config_ before the first start (never read before it is set)
NoConfig == MkConfig(<<0, 0, 0>>, <<0, 0, 0>>, 0, "SWEEP_VGS", <<>>)

(* ------------------------------------------------------------------ *)
(* Hardware abstraction layer                                           *)
(* ------------------------------------------------------------------ *)
\* InternalDAC::setVoltage: clamp to [0, maxVoltage], convert to an 8-bit code
DacCode(voltage) ==
  LET lo == IF voltage < 0 THEN 0 ELSE voltage
      v  == IF lo > DAC_VREF_mV THEN DAC_VREF_mV ELSE lo
  IN  ((v * DAC_MAX_VALUE) \div DAC_VREF_mV) % 256

(* ------------------------------------------------------------------ *)
(* Storage Manager                                                      *)
(* ------------------------------------------------------------------ *)
\* a File that is not open
ClosedFile == [open |-> FALSE, name |-> <<>>]

\* FileManager::getStorageInfo: isHealthy = usedBytes / totalBytes < 0.80
isHealthy(ffat) ==
  ffat.usedBytes * 100 < MAX_STORAGE_USAGE_PCT * ffat.totalBytes

\* FFat.freeBytes()
freeBytes(ffat) == ffat.totalBytes - ffat.usedBytes

\* the capacity check without the free-space floor
checkStorageAvailable_PercentOnly(ffat) == isHealthy(ffat)

\* FileManager::checkStorageAvailable
checkStorageAvailable(ffat) ==
  /\ isHealthy(ffat)
  /\ ~(freeBytes(ffat) < MinFreeBytes)

\* FileManager::deleteFile: the directory after the call
deleteFile(dir, filename) ==
  IF ~isValidFilename(filename) THEN dir ELSE dir \ {filename}

\* String::lastIndexOf(c) + 1: the last position of c, 0 if there is none
LastIndexOf(s, c) ==
  IF \E i \in 1..Len(s) : s[i] = c
  THEN CHOOSE i \in 1..Len(s) : s[i] = c /\ \A j \in (i + 1)..Len(s) : s[j] # c
  ELSE 0

\* the value of a decimal digit
DigitVal(c) == CHOOSE d \in 0..9 : DigitChars[d + 1] = c

\* String::toInt (atol) of an unsigned decimal string: the value of the
\* leading digits, 0 if there are none
RECURSIVE ToIntFrom(_, _)
ToIntFrom(s, acc) ==
  IF s = <<>> \/ ~(Head(s) \in {DigitChars[i] : i \in 1..10}) THEN acc
  ELSE ToIntFrom(Tail(s), acc * 10 + DigitVal(Head(s)))

toInt(s) == ToIntFrom(s, 0)

\* FileManager::extractTimestamp: the number between the last '_' and the
\* last '.' (String::substring swaps its bounds when left > right)
extractTimestamp(filename) ==
  LET lastUnderscore == LastIndexOf(filename, "_")
      dotIndex == LastIndexOf(filename, ".")
  IN IF lastUnderscore # 0 /\ dotIndex # 0
     THEN toInt(IF lastUnderscore < dotIndex
                THEN SubSeq(filename, lastUnderscore + 1, dotIndex - 1)
                ELSE SubSeq(filename, dotIndex, lastUnderscore))
     ELSE 0

\* one element put into a vector sorted by timestamp, after its equals
RECURSIVE InsertByTimestamp(_, _)
InsertByTimestamp(sorted, f) ==
  IF sorted = <<>> THEN <<f>>
  ELSE IF extractTimestamp(f) < extractTimestamp(Head(sorted))
       THEN <<f>> \o sorted
       ELSE <<Head(sorted)>> \o InsertByTimestamp(Tail(sorted), f)

\* std::sort of the vector by a.timestamp < b.timestamp
RECURSIVE SortByTimestamp(_)
SortByTimestamp(v) ==
  IF v = <<>> THEN <<>>
  ELSE InsertByTimestamp(SortByTimestamp(SubSeq(v, 1, Len(v) - 1)), v[Len(v)])

\* listFiles without the sort: the files as the directory yields them
listFiles_DirectoryOrder(order) == order

\* FileManager::listFiles, the directory yielding its files in the given order
listFiles(order) == SortByTimestamp(order)

\* the orders in which openNextFile can yield the files of a directory
DirectoryOrders(dir) ==
  { order \in [1..Cardinality(dir) -> dir] :
      \A i, j \in 1..Cardinality(dir) : i # j => order[i] # order[j] }

\* FileManager::deleteOldestFile: the directories it can leave, files[0]
\* of listFiles being one of the files with the least timestamp
deleteOldestFile(dir) ==
  IF dir = {} THEN {dir}
  ELSE LET timestamp == [g \in dir |-> extractTimestamp(g)]
           stamps == {timestamp[g] : g \in dir}
           least == CHOOSE t \in stamps : \A u \in stamps : t <= u
       IN { dir \ {f} : f \in { g \in dir : timestamp[g] = least } }

\* MOSFETController::closeMeasurementFile: the handle after the call
closeMeasurementFile(f) == IF f.open THEN ClosedFile ELSE f

(* ------------------------------------------------------------------ *)
(* State                                                                *)
(* ------------------------------------------------------------------ *)
VARIABLES
  measuring_,        \* MOSFETController::measuring_
  cancelled_,        \* MOSFETController::cancelled_
  hasError_,         \* MOSFETController::hasError_
  errorMessage_,     \* MOSFETController::errorMessage_
  currentVds_,       \* MOSFETController::currentVds_ (mV)
  progressPercent_,  \* MOSFETController::progressPercent_
  config_,           \* MOSFETController::config_
  currentFilename_,  \* MOSFETController::currentFilename_
  currentFile_,      \* MOSFETController::currentFile_ : [open, name]
  taskHandle_,       \* MOSFETController::taskHandle_ (0 = nullptr)
  dacVDS,            \* InternalDAC channel 1 currentValue_
  dacVGS,            \* InternalDAC channel 2 currentValue_
  files,             \* names present in /measurements
  clock,             \* time(): seconds
  worker,            \* the MOS_Measure tasks: position and locals
  callerPc,          \* position of the request-handling context
  lastOp,            \* the request handled by the last step and its outcome
  curRun,            \* task of the most recently accepted start (0 = none)
  runFile,           \* filename reserved by the most recently accepted start
  cancelAt,          \* where the current run's task stood when cancel began
  status,            \* the ProgressStatus getProgress is filling in / returned
  ffatFull,          \* the partition has no room for another row
  reqName,           \* the name a file request or FileManager call was given
  listing,           \* the vector the last FileManager::listFiles returned
  fsPath,            \* the name in the path the last file operation gave FFat
  logQ,              \* g_log_queue: whether it was created, and its messages
  logPc,             \* position of the task that is inside logToSerialAsync
  arg,               \* the arguments an Analysis Engine function is called with
  ret,               \* what the Analysis Engine function returned
  mutex_,            \* MOSFETController::mutex_: whether begin() got it, and
                     \* the context holding it (0 = free)
  starting,          \* the other contexts' position in startMeasurementAsync
  serial,            \* what Serial.println has written, in order
  heap,              \* the copies strdup made for the log queue
  logBuf,            \* LogBuffer: logs_, write_index_, buffer_full_
  logHist            \* the entries addLog stored since the last clear()

ctrlVars == <<measuring_, cancelled_, hasError_, errorMessage_, currentVds_,
              progressPercent_, config_, currentFilename_, currentFile_,
              taskHandle_>>
halVars == <<dacVDS, dacVGS>>
histVars == <<curRun, runFile, cancelAt>>
\* the logging queue and the call of the Analysis Engine
\* the controller's mutex with the contexts inside a start, the serial
\* port with the log copies, and the log buffer
rtVars == <<mutex_, starting, serial, heap, logBuf, logHist>>
engVars == <<logQ, logPc, arg, ret, rtVars>>

fmVars == <<status, ffatFull, reqName, listing, fsPath, engVars>>
vars == <<measuring_, cancelled_, hasError_, errorMessage_, currentVds_,
          progressPercent_, config_, currentFilename_, currentFile_,
          taskHandle_, dacVDS, dacVGS, files, clock,
          worker, callerPc, lastOp, curRun, runFile, cancelAt,
          status, ffatFull, reqName, listing, fsPath, logQ, logPc, arg, ret,
          mutex_, starting, serial, heap, logBuf, logHist>>

Workers == 1..NumWorkers

\* a task slot that holds no task
NoTask ==
  [ pc |-> "none", sweepVDS |-> FALSE,
    o_end |-> 0, o_step |-> 0, i_start |-> 0, i_end |-> 0, i_step |-> 0,
    ov |-> 0, iv |-> 0, total_points |-> 0, current_point |-> 0,
    shut |-> FALSE ]

\* a slot for which the heap has no room
Absent == [NoTask EXCEPT !.pc = "absent"]

\* the slot can host a new task
Free(w) == worker[w].pc \in {"none", "done"}

\* the task exists and has not yet left measurementTaskWrapper
Live(w) == worker[w].pc \notin {"none", "done", "absent"}

\* the last step handled no request
Quiet == [op |-> "none", res |-> "none", ffat |-> EmptyFFat, passed |-> TRUE]

\* the outcome of a start request: the partition it met, and whether the
\* handler's own validation let it through
StartOp(res, ffat, passed) ==
  [op |-> "start", res |-> res, ffat |-> ffat, passed |-> passed]

\* the outcome of a cancel request
CancelOp(res) == [Quiet EXCEPT !.op = "cancel", !.res = res]

\* a ProgressStatus before getProgress has filled it in
NoStatus ==
  [ is_running |-> FALSE, current_vds |-> 0, progress_percent |-> 0,
    has_error |-> FALSE, error_message |-> "", message |-> <<>> ]

\* an Analysis Engine call that has not been made
NoCall == [fn |-> "none"]

\* the state after setup(): the heap has room for the given task slots, the
\* measurement directory holds dir, name is the file parameter the next file
\* request carries, xQueueCreate succeeded or not, and input is what the
\* Analysis Engine will be called with
\* the request contexts besides the one callerPc follows
Callers == 1..2

\* a context that is not inside startMeasurementAsync
NoStart == [pc |-> "out", config |-> <<>>]

\* no copy made yet: the id of the next one, the copies not yet freed, the
\* ids free() was called with, and the copy a blocked xQueueSend holds
NoCopies == [next |-> 1, live |-> {}, released |-> <<>>, pending |-> 0]

\* LogBuffer::LogBuffer, xSemaphoreCreateMutex giving a mutex or nullptr
EmptyLogBuffer(created) ==
  [logs_ |-> <<>>, write_index_ |-> 0, buffer_full_ |-> FALSE,
   mutex_ |-> created]

\* nothing was handed to addLog yet: the number of entries stored since
\* boot, and the entries stored since the last clear()
NoLogHistory == [adds |-> 0, kept |-> <<>>]

BootCore(slots, dir, name, created, input) ==
  /\ measuring_ = FALSE
  /\ cancelled_ = FALSE
  /\ hasError_ = FALSE
  /\ errorMessage_ = ""
  /\ currentVds_ = 0
  /\ progressPercent_ = 0
  /\ config_ = NoConfig
  /\ currentFilename_ = <<>>
  /\ currentFile_ = ClosedFile
  /\ taskHandle_ = 0
  /\ dacVDS = 0
  /\ dacVGS = 0
  /\ files = dir
  /\ clock = 0
  /\ worker = slots
  /\ callerPc = "idle"
  /\ lastOp = Quiet
  /\ curRun = 0
  /\ runFile = <<>>
  /\ cancelAt = "none"
  /\ status = NoStatus
  /\ ffatFull = FALSE
  /\ reqName = name
  /\ listing = <<>>
  /\ fsPath = <<>>
  /\ logQ = [created |-> created, items |-> <<>>]
  /\ logPc = "idle"
  /\ arg = input
  /\ ret = NoCall
  /\ starting = [c \in Callers |-> NoStart]
  /\ serial = <<>>
  /\ heap = NoCopies
  /\ logHist = NoLogHistory

\* begin() got its mutex from xSemaphoreCreateMutex
BootState(slots, dir, name, created, input) ==
  /\ BootCore(slots, dir, name, created, input)
  /\ mutex_ = [created |-> TRUE, holder |-> 0]
  /\ logBuf = EmptyLogBuffer(TRUE)

\* the state after setup(), the heap having room for the given task slots,
\* the measurement directory holding dir, and name being the file parameter
\* the next file request carries
BootWith(slots, dir, name) == BootState(slots, dir, name, TRUE, NoCall)

\* the state after setup() with an empty measurement directory
Boot(slots) == BootWith(slots, {}, <<>>)

Init == Boot([w \in Workers |-> NoTask])

(* ------------------------------------------------------------------ *)
(* Sweep Controller: start                                              *)
(* ------------------------------------------------------------------ *)
\* the lowest free task slot
FreeSlot == CHOOSE w \in Workers : Free(w) /\ \A u \in Workers : Free(u) => w <= u

\* a rejection that zeroes the progress on its way out
RejectStart_ResetsProgress(res, ffat, passed) ==
  /\ lastOp' = StartOp(res, ffat, passed)
  /\ progressPercent_' = 0
  /\ UNCHANGED <<measuring_, cancelled_, hasError_, errorMessage_, currentVds_,
                 config_, currentFilename_, currentFile_, taskHandle_, halVars,
                 files, worker, callerPc, histVars>>

\* a rejection that returns before anything is stored
RejectStart(res, ffat, passed) ==
  /\ lastOp' = StartOp(res, ffat, passed)
  /\ UNCHANGED <<ctrlVars, halVars, files, worker, callerPc, histVars>>

\* the range check of startMeasurementAsync
InvalidVoltageRange(config) ==
  config.vgs_start < 0 \/ config.vgs_end > MaxVoltage_mV
    \/ config.vds_end > MaxVoltage_mV

\* the fields startMeasurementAsync resets before it creates the task
ResetStatus(config) ==
  /\ cancelled_' = FALSE
  /\ hasError_' = FALSE
  /\ errorMessage_' = ""
  /\ currentVds_' = config.vds_start
  /\ progressPercent_' = 0

\* startMeasurementAsync from its range check on, measuring_ having been
\* found false
startAfterCheck(config, now, ffat) ==
  IF InvalidVoltageRange(config) THEN RejectStart("InvalidConfig", ffat, TRUE)
  ELSE
    LET fname == GenFilename(config.filename, now) IN
    /\ config_' = config
    /\ currentFilename_' = fname
    /\ IF ~isValidFilename(fname)
       THEN /\ lastOp' = StartOp("InvalidFilename", ffat, TRUE)
            /\ UNCHANGED <<measuring_, cancelled_, hasError_, errorMessage_,
                           currentVds_, progressPercent_, currentFile_,
                           taskHandle_, halVars, files, worker, callerPc,
                           histVars>>
       ELSE /\ ResetStatus(config)
            /\ UNCHANGED <<currentFile_, halVars, files, callerPc>>
            /\ \/ \* xTaskCreatePinnedToCore returns pdPASS
                  /\ \E w \in Workers : Free(w)
                  /\ measuring_' = TRUE
                  /\ taskHandle_' = FreeSlot
                  /\ worker' = [w \in Workers |->
                                  IF w = FreeSlot THEN [NoTask EXCEPT !.pc = "start"]
                                  ELSE IF Free(w) THEN NoTask ELSE worker[w]]
                  /\ lastOp' = StartOp("Started", ffat, TRUE)
                  /\ curRun' = FreeSlot
                  /\ runFile' = fname
                  /\ cancelAt' = "none"
               \/ \* the task cannot be created
                  /\ measuring_' = FALSE
                  /\ lastOp' = StartOp("TaskCreateFailed", ffat, TRUE)
                  /\ UNCHANGED <<taskHandle_, worker, histVars>>

\* MOSFETController::startMeasurementAsync, called at time now by a request
\* that met the partition ffat
startMeasurementAsync(config, now, ffat) ==
  IF measuring_ THEN RejectStart("AlreadyRunning", ffat, TRUE)
  ELSE startAfterCheck(config, now, ffat)

\* the validation of handleStartMeasurement that precedes the storage check
HandlerRejects(config) ==
  \/ config.vgs_start < 0 \/ config.vgs_end > MaxVoltage_mV
  \/ config.rshunt <= 0

\* handleStartMeasurement: POST /api/start with a parsed body, the partition
\* being filled as ffat says.  The drain range of config is whatever the body
\* gave (the WebServer handler) or whatever the unassigned fields of the
\* local SweepConfig hold (the AsyncWebServer handler): any value either way.
handleStartMeasurement(config, ts, ffat) ==
  /\ callerPc = "idle"
  /\ UNCHANGED fmVars
  /\ clock' = IF ts > TimeSyncThreshold THEN ts ELSE clock
  /\ IF HandlerRejects(config)
     THEN RejectStart("InvalidConfig", ffat, FALSE)
     ELSE IF ~checkStorageAvailable(ffat)
     THEN RejectStart("StorageExhausted", ffat, TRUE)
     ELSE startMeasurementAsync(config, clock', ffat)

(* ------------------------------------------------------------------ *)
(* Sweep Controller: start, called from several contexts                *)
(* ------------------------------------------------------------------ *)
\* what a step inside startMeasurementAsync leaves alone besides the
\* controller, the mutex and the position of its caller
StartFrame ==
  UNCHANGED <<clock, status, ffatFull, reqName, listing, fsPath, logQ, logPc,
              arg, ret, serial, heap, logBuf, logHist>>

\* a step inside startMeasurementAsync that changes nothing of the controller
StartPasses ==
  /\ lastOp' = Quiet
  /\ UNCHANGED <<ctrlVars, halVars, files, worker, callerPc, histVars>>

\* the caller is at the named place of startMeasurementAsync
StartAt(c, pc, config) ==
  starting' = [starting EXCEPT ![c] = [pc |-> pc, config |-> config]]

\* xSemaphoreTake(mutex_) by context c succeeding
MutexTaken(m, c) == [m EXCEPT !.holder = c]

\* the mutex after a return that skips xSemaphoreGive when the filename is
\* rejected
MutexAfterReturn_KeptOnInvalidFilename(m, res) ==
  IF res = "InvalidFilename" THEN m ELSE [m EXCEPT !.holder = 0]

\* the mutex after startMeasurementAsync returned res from inside the
\* guarded part: if (mutex_) xSemaphoreGive(mutex_)
MutexAfterReturn(m, res) == [m EXCEPT !.holder = 0]

\* startMeasurementAsync(config) in context c up to xSemaphoreTake: the
\* mutex is taken, or the caller waits for it, or there is no mutex
startEnter(c, config) ==
  /\ starting[c].pc = "out"
  /\ IF mutex_.created /\ mutex_.holder # 0
     THEN /\ StartAt(c, "waiting", config)
          /\ UNCHANGED mutex_
     ELSE /\ StartAt(c, "in", config)
          /\ mutex_' = IF mutex_.created THEN MutexTaken(mutex_, c) ELSE mutex_
  /\ StartPasses
  /\ StartFrame

\* the wait inside xSemaphoreTake(mutex_, 100 ms) ends: the mutex was given,
\* or the time is over and startMeasurementAsync returns false
startWaitEnds(c) ==
  /\ starting[c].pc = "waiting"
  /\ IF mutex_.holder = 0
     THEN /\ StartAt(c, "in", starting[c].config)
          /\ mutex_' = MutexTaken(mutex_, c)
          /\ StartPasses
     ELSE /\ starting' = [starting EXCEPT ![c] = NoStart]
          /\ RejectStart("MutexTimeout", EmptyFFat, TRUE)
          /\ UNCHANGED mutex_
  /\ StartFrame

\* if (measuring_) { give; return false; }
startCheck(c) ==
  /\ starting[c].pc = "in"
  /\ IF measuring_
     THEN /\ RejectStart("AlreadyRunning", EmptyFFat, TRUE)
          /\ starting' = [starting EXCEPT ![c] = NoStart]
          /\ mutex_' = MutexAfterReturn(mutex_, "AlreadyRunning")
     ELSE /\ StartAt(c, "checked", starting[c].config)
          /\ StartPasses
          /\ UNCHANGED mutex_
  /\ StartFrame

\* the rest of startMeasurementAsync, from the range check to its return
startCommit(c) ==
  /\ starting[c].pc = "checked"
  /\ startAfterCheck(starting[c].config, clock, EmptyFFat)
  /\ starting' = [starting EXCEPT ![c] = NoStart]
  /\ mutex_' = MutexAfterReturn(mutex_, lastOp'.res)
  /\ StartFrame

(* ------------------------------------------------------------------ *)
(* Sweep Controller: cancel                                             *)
(* ------------------------------------------------------------------ *)
\* the task has written the row of the last point of its grid
LastSampleTaken(w) ==
  /\ worker[w].pc \in {"outer", "inner", "finish", "close"}
  /\ worker[w].total_points > 0
  /\ worker[w].current_point = worker[w].total_points

\* the part of performSweep a task is in
Stage(w) ==
  IF worker[w].pc = "start" THEN "before_open"
  ELSE IF LastSampleTaken(w) THEN "after_last_sample"
  ELSE IF worker[w].pc \in {"outer", "inner", "settle"} THEN "sweeping"
  ELSE IF worker[w].pc \in {"finish", "close"} THEN "leaving"
  ELSE "ended"

\* a cancel that does not look at measuring_ first
cancelMeasurementBegin_Unguarded ==
  /\ cancelled_' = TRUE
  /\ callerPc' = "cancel_wait"
  /\ lastOp' = CancelOp("Waiting")
  /\ UNCHANGED <<measuring_, hasError_, errorMessage_, currentVds_,
                 progressPercent_, config_, currentFilename_, currentFile_,
                 taskHandle_, halVars, files, clock, worker, histVars>>

\* cancelMeasurement up to its vTaskDelay(200 ms)
cancelMeasurementBegin ==
  IF ~measuring_
  THEN /\ lastOp' = CancelOp("NoOp")
       /\ UNCHANGED <<ctrlVars, halVars, files, clock, worker, callerPc,
                      histVars>>
  ELSE /\ cancelled_' = TRUE
       /\ callerPc' = "cancel_wait"
       /\ lastOp' = CancelOp("Waiting")
       /\ cancelAt' = IF cancelAt = "none" /\ curRun # 0
                      THEN Stage(curRun) ELSE cancelAt
       /\ UNCHANGED <<measuring_, hasError_, errorMessage_, currentVds_,
                      progressPercent_, config_, currentFilename_,
                      currentFile_, taskHandle_, halVars, files, clock,
                      worker, curRun, runFile>>

\* handleCancelMeasurement: POST /api/cancel
handleCancelMeasurement ==
  /\ callerPc = "idle"
  /\ UNCHANGED fmVars
  /\ cancelMeasurementBegin

\* cancelMeasurement after the delay: close, delete, clear the flag
cancelMeasurementFinish ==
  /\ callerPc = "cancel_wait"
  /\ UNCHANGED fmVars
  /\ currentFile_' = closeMeasurementFile(currentFile_)
  /\ files' = IF currentFilename_ # <<>>
              THEN deleteFile(files, currentFilename_) ELSE files
  /\ measuring_' = FALSE
  /\ callerPc' = "idle"
  /\ lastOp' = CancelOp("Cancelled")
  /\ UNCHANGED <<cancelled_, hasError_, errorMessage_, currentVds_,
                 progressPercent_, config_, currentFilename_, taskHandle_,
                 halVars, clock, worker, histVars>>

(* ------------------------------------------------------------------ *)
(* Sweep Controller: progress query                                     *)
(* ------------------------------------------------------------------ *)
\* a voltage in mV as snprintf("%.2f") prints it: hundredths of a volt
Centi(v) == IF v >= 0 THEN (v + 5) \div 10 ELSE 0 - (((0 - v) + 5) \div 10)

\* the steps of the handler that leave the controller, the hardware, the
\* directory and the tasks alone
ReaderFrame ==
  UNCHANGED <<ctrlVars, halVars, files, clock, worker, histVars, ffatFull,
              reqName, listing, fsPath, engVars>>

\* handleGetProgress: GET /api/progress; getProgress copies is_running,
\* current_vds and progress_percent (no lock is taken)
handleGetProgress ==
  /\ callerPc = "idle"
  /\ status' = [NoStatus EXCEPT !.is_running = measuring_,
                                !.current_vds = currentVds_,
                                !.progress_percent = progressPercent_]
  /\ callerPc' = "progress_error"
  /\ lastOp' = Quiet
  /\ ReaderFrame

\* getProgress copies has_error and error_message
getProgressError ==
  /\ callerPc = "progress_error"
  /\ status' = [status EXCEPT !.has_error = hasError_,
                              !.error_message = errorMessage_]
  /\ callerPc' = "progress_message"
  /\ lastOp' = Quiet
  /\ ReaderFrame

\* getProgress builds the message from the members as they are now
getProgressMessage ==
  /\ callerPc = "progress_message"
  /\ status' = [status EXCEPT !.message =
                   IF ~measuring_
                   THEN IF hasError_ THEN <<"Error: ", errorMessage_>>
                                     ELSE <<"Idle">>
                   ELSE IF cancelled_ THEN <<"Cancelling...">>
                   ELSE <<"Measuring VDS = ", Centi(currentVds_), "V">>]
  /\ callerPc' = "progress_send"
  /\ lastOp' = Quiet
  /\ ReaderFrame

\* handleGetProgress sends the JSON of the returned status
sendProgress ==
  /\ callerPc = "progress_send"
  /\ status' = NoStatus
  /\ callerPc' = "idle"
  /\ lastOp' = [Quiet EXCEPT !.op = "progress", !.res = "Sent"]
  /\ ReaderFrame

(* ------------------------------------------------------------------ *)
(* Sweep worker: measurementTaskWrapper and performSweep                *)
(* ------------------------------------------------------------------ *)
\* results a float-to-int conversion of an infinite or NaN quotient can give
UBSteps == {INT_MIN, 0, 1}

\* (int)((end - start) / step) + 1 for a range <<start, end, step>>
StepCount(r) ==
  IF r[3] = 0 THEN UBSteps
  ELSE {TruncDiv(r[2] - r[1], r[3]) + 1}

\* progressPercent_ = (current_point * 100) / total_points
Progress(current_point, total_points) ==
  TruncDiv(Mul32(current_point, 100), total_points)

\* the processor traps (integer division by zero) and the firmware restarts:
\* setup() runs again, the filesystem and the clock survive
Reboot ==
  /\ measuring_' = FALSE
  /\ cancelled_' = FALSE
  /\ hasError_' = FALSE
  /\ errorMessage_' = ""
  /\ currentVds_' = 0
  /\ progressPercent_' = 0
  /\ config_' = NoConfig
  /\ currentFilename_' = <<>>
  /\ currentFile_' = ClosedFile
  /\ taskHandle_' = 0
  /\ dacVDS' = 0
  /\ dacVGS' = 0
  /\ worker' = [w \in Workers |->
                  IF worker[w].pc = "absent" THEN Absent ELSE NoTask]
  /\ callerPc' = "idle"
  /\ lastOp' = [Quiet EXCEPT !.op = "reboot"]
  /\ curRun' = 0
  /\ runFile' = <<>>
  /\ cancelAt' = "none"
  /\ UNCHANGED <<files, clock>>

\* performSweep up to the end of the header: copy the configuration, count
\* the grid, open the output file
W_Begin(w) ==
  /\ worker[w].pc = "start"
  /\ UNCHANGED fmVars
  /\ LET sweepVDS == (config_.sweep_mode = "SWEEP_VDS")
         vgsR == <<config_.vgs_start, config_.vgs_end, config_.vgs_step>>
         vdsR == <<config_.vds_start, config_.vds_end, config_.vds_step>>
         outer == IF sweepVDS THEN vgsR ELSE vdsR
         inner == IF sweepVDS THEN vdsR ELSE vgsR
     IN \E outer_steps \in StepCount(outer), inner_steps \in StepCount(inner) :
          LET locals == [ worker[w] EXCEPT
                            !.sweepVDS = sweepVDS,
                            !.o_end = outer[2], !.o_step = outer[3],
                            !.i_start = inner[1], !.i_end = inner[2],
                            !.i_step = inner[3], !.ov = outer[1],
                            !.total_points = Mul32(outer_steps, inner_steps),
                            !.current_point = 0 ]
          IN \/ \* FFat.open fails
                /\ currentFile_' = ClosedFile
                /\ hasError_' = TRUE
                /\ errorMessage_' = "Failed to open file"
                /\ worker' = [worker EXCEPT ![w] = [locals EXCEPT !.pc = "close"]]
                /\ UNCHANGED files
             \/ \* the file is created (or truncated) and the header written
                /\ currentFile_' = [open |-> TRUE, name |-> currentFilename_]
                /\ files' = files \cup {currentFilename_}
                /\ worker' = [worker EXCEPT ![w] = [locals EXCEPT !.pc = "outer"]]
                /\ UNCHANGED <<hasError_, errorMessage_>>
  /\ lastOp' = Quiet
  /\ UNCHANGED <<measuring_, cancelled_, currentVds_, progressPercent_, config_,
                 currentFilename_, taskHandle_, halVars, clock, callerPc,
                 histVars>>

\* the condition of the outer for loop
W_Outer(w) ==
  /\ worker[w].pc = "outer"
  /\ UNCHANGED fmVars
  /\ IF worker[w].ov <= worker[w].o_end /\ measuring_ /\ ~cancelled_
     THEN /\ currentVds_' = worker[w].ov
          /\ worker' = [worker EXCEPT ![w].pc = "inner",
                                      ![w].iv = worker[w].i_start]
     ELSE /\ worker' = [worker EXCEPT ![w].pc = "finish"]
          /\ UNCHANGED currentVds_
  /\ lastOp' = Quiet
  /\ UNCHANGED <<measuring_, cancelled_, hasError_, errorMessage_,
                 progressPercent_, config_, currentFilename_, currentFile_,
                 taskHandle_, halVars, files, clock, callerPc, histVars>>

\* the condition of the inner for loop, then hal::setVDS and hal::setVGS
W_Inner(w) ==
  /\ worker[w].pc = "inner"
  /\ UNCHANGED fmVars
  /\ IF worker[w].iv <= worker[w].i_end /\ measuring_ /\ ~cancelled_
     THEN /\ worker[w].current_point < MaxSamples
          /\ LET vds == IF worker[w].sweepVDS THEN worker[w].iv ELSE worker[w].ov
                 vgs == IF worker[w].sweepVDS THEN worker[w].ov ELSE worker[w].iv
             IN /\ dacVDS' = DacCode(vds)
                /\ dacVGS' = DacCode(vgs)
          /\ worker' = [worker EXCEPT ![w].pc = "settle"]
     ELSE \* end of the curve: parameters and metadata line (gate sweep),
          \* flush, next outer value
          /\ worker' = [worker EXCEPT ![w].pc = "outer",
                                      ![w].ov = worker[w].ov + worker[w].o_step]
          /\ UNCHANGED halVars
  /\ lastOp' = Quiet
  /\ UNCHANGED <<ctrlVars, files, clock, callerPc, histVars>>

\* after the settling delay: read the shunt, write the row, advance progress
\* (the result of currentFile_.printf is not looked at: a row that does not
\* reach the file, the partition being full, changes nothing in the task)
W_Sample(w) ==
  /\ worker[w].pc = "settle"
  /\ UNCHANGED fmVars
  /\ LET cp == worker[w].current_point + 1 IN
     IF worker[w].total_points = 0
     THEN Reboot
     ELSE /\ progressPercent_' = Progress(cp, worker[w].total_points)
          /\ worker' = [worker EXCEPT ![w].pc = "inner",
                                      ![w].current_point = cp,
                                      ![w].iv = worker[w].iv + worker[w].i_step]
          /\ lastOp' = Quiet
          /\ UNCHANGED <<measuring_, cancelled_, hasError_, errorMessage_,
                         currentVds_, config_, currentFilename_, currentFile_,
                         taskHandle_, halVars, files, clock, callerPc,
                         histVars>>

\* after the loops: final flush, progress 100 if not cancelled, hal::shutdown
W_Finish(w) ==
  /\ worker[w].pc = "finish"
  /\ UNCHANGED fmVars
  /\ progressPercent_' = IF measuring_ /\ ~cancelled_ THEN 100
                         ELSE progressPercent_
  /\ dacVDS' = 0
  /\ dacVGS' = 0
  /\ worker' = [worker EXCEPT ![w].pc = "close", ![w].shut = TRUE]
  /\ lastOp' = Quiet
  /\ UNCHANGED <<measuring_, cancelled_, hasError_, errorMessage_, currentVds_,
                 config_, currentFilename_, currentFile_, taskHandle_, files,
                 clock, callerPc, histVars>>

\* measurementTaskWrapper after performSweep: close the file, clear the flag
W_Close(w) ==
  /\ worker[w].pc = "close"
  /\ UNCHANGED fmVars
  /\ currentFile_' = closeMeasurementFile(currentFile_)
  /\ measuring_' = FALSE
  /\ taskHandle_' = 0
  /\ worker' = [worker EXCEPT ![w] = [NoTask EXCEPT !.pc = "done"]]
  /\ lastOp' = Quiet
  /\ UNCHANGED <<cancelled_, hasError_, errorMessage_, currentVds_,
                 progressPercent_, config_, currentFilename_, halVars, files,
                 clock, callerPc, histVars>>

(* ------------------------------------------------------------------ *)
(* Specifications                                                       *)
(* ------------------------------------------------------------------ *)
\* a step of a sweep task
WorkerStep ==
  \/ \E w \in Workers : W_Begin(w)
  \/ \E w \in Workers : W_Outer(w)
  \/ \E w \in Workers : W_Inner(w)
  \/ \E w \in Workers : W_Sample(w)
  \/ \E w \in Workers : W_Finish(w)
  \/ \E w \in Workers : W_Close(w)

\* requests with ranges the hardware can sweep, against every task slot
Next ==
  \/ \E config \in CoreConfigs, ts \in NoTimestamp, ffat \in CoreLevels :
        handleStartMeasurement(config, ts, ffat)
  \/ handleCancelMeasurement
  \/ cancelMeasurementFinish
  \/ WorkerStep

Spec == Init /\ [][Next]_vars

\* the heap has room for one sweep task only
InitOneTask == Boot([w \in Workers |-> IF w = 1 THEN NoTask ELSE Absent])

\* every request body, the clock set by the requests that carry a timestamp
NextAll ==
  \/ \E config \in AllConfigs, ts \in Timestamps, ffat \in CoreLevels :
        handleStartMeasurement(config, ts, ffat)
  \/ handleCancelMeasurement
  \/ cancelMeasurementFinish
  \/ WorkerStep

SpecAll == InitOneTask /\ [][NextAll]_vars

\* every level of the partition
NextStorage ==
  \/ \E config \in CoreConfigs, ts \in NoTimestamp, ffat \in FFatLevels :
        handleStartMeasurement(config, ts, ffat)
  \/ handleCancelMeasurement
  \/ cancelMeasurementFinish
  \/ WorkerStep

SpecStorage == InitOneTask /\ [][NextStorage]_vars

(* ------------------------------------------------------------------ *)
(* Analysis Engine (math_engine)                                        *)
(* ------------------------------------------------------------------ *)
\* A float is modelled by the exact rational <<numerator, denominator>> in
\* lowest terms, denominator positive: the rounding of float arithmetic is
\* not modelled.
RECURSIVE GCD(_, _)
GCD(a, b) == IF b = 0 THEN a ELSE GCD(b, a % b)

Q(n, d) ==
  LET g == GCD(Abs(n), Abs(d))
      sg == IF d < 0 THEN 0 - 1 ELSE 1
  IN <<(sg * n) \div g, (sg * d) \div g>>

QInt(i) == <<i, 1>>
QAdd(a, b) == Q(a[1] * b[2] + b[1] * a[2], a[2] * b[2])
QSub(a, b) == Q(a[1] * b[2] - b[1] * a[2], a[2] * b[2])
QMul(a, b) == Q(a[1] * b[1], a[2] * b[2])
QDiv(a, b) == Q(a[1] * b[2], a[2] * b[1])
QLess(a, b) == a[1] * b[2] < b[1] * a[2]
QZero == QInt(0)

\* the sum of the elements of v at the positions first..last
RECURSIVE QSum(_, _, _)
QSum(v, first, last) ==
  IF first > last THEN QZero ELSE QAdd(v[first], QSum(v, first + 1, last))

\* a moving average that keeps only the positions whose window is whole
movingAverageSmooth_WholeWindows(data, windowSize) ==
  LET halfWindow == (IF windowSize < 1 THEN 1 ELSE windowSize) \div 2
      n == Len(data)
  IN IF n <= 2 * halfWindow THEN <<>>
     ELSE [ i \in 1..(n - 2 * halfWindow) |->
              QDiv(QSum(data, i, i + 2 * halfWindow),
                   QInt(2 * halfWindow + 1)) ]

\* math_engine::movingAverageSmooth(data, windowSize); positions are 1-based
movingAverageSmooth(data, windowSize) ==
  IF data = <<>> THEN <<>>
  ELSE LET atLeastOne == IF windowSize < 1 THEN 1 ELSE windowSize
           odd == IF atLeastOne % 2 = 0 THEN atLeastOne + 1 ELSE atLeastOne
           halfWindow == odd \div 2
           n == Len(data)
       IN [ i \in 1..n |->
              LET lo == IF i - halfWindow < 1 THEN 1 ELSE i - halfWindow
                  hi == IF i + halfWindow > n THEN n ELSE i + halfWindow
              IN QDiv(QSum(data, lo, hi), QInt(hi - lo + 1)) ]

\* fabs(x) > 1 / tinyDen, for the thresholds 1e-9f and 1e-12f
ExceedsTiny(x, tinyDen) == Abs(x[1]) > x[2] \div tinyDen

\* H = [-3, 12, 17, 12, -3] / 35
SGCoefficients == <<Q(0 - 3, 35), Q(12, 35), Q(17, 35), Q(12, 35), Q(0 - 3, 35)>>

\* math_engine::savitzkyGolaySmooth(data, windowSize, polyOrder)
savitzkyGolaySmooth(data, windowSize, polyOrder) ==
  IF Len(data) < 5 THEN movingAverageSmooth(data, windowSize)
  ELSE LET n == Len(data)
           clamp(idx) == IF idx < 1 THEN 1 ELSE IF idx > n THEN n ELSE idx
           taps(i) == [ k \in 1..5 |-> QMul(data[clamp(i + k - 3)], SGCoefficients[k]) ]
       IN [ i \in 1..n |-> QSum(taps(i), 1, 5) ]

\* GmConfig: smoothingWindow = 5, useSavitzkyGolay = true
GmConfig == [smoothingWindow |-> 5, useSavitzkyGolay |-> TRUE]

\* the difference quotient (y2 - y1) / dVgs, 0 when fabs(dVgs) <= 1e-9f
Slope(y1, y2, dVgs) ==
  IF ExceedsTiny(dVgs, 1000000000) THEN QDiv(QSub(y2, y1), dVgs) ELSE QZero

\* math_engine::calculateGm(ids, vgs, config)
calculateGm(ids, vgs, config) ==
  IF Len(ids) # Len(vgs) \/ Len(ids) < 3
  THEN [ i \in 1..Len(ids) |-> QZero ]
  ELSE LET n == Len(ids)
           idsSmooth == IF config.useSavitzkyGolay
                        THEN savitzkyGolaySmooth(ids, config.smoothingWindow, 2)
                        ELSE movingAverageSmooth(ids, config.smoothingWindow)
       IN [ i \in 1..n |->
              IF i = 1
              THEN Slope(idsSmooth[1], idsSmooth[2], QSub(vgs[2], vgs[1]))
              ELSE IF i = n
                   THEN Slope(idsSmooth[n - 1], idsSmooth[n],
                              QSub(vgs[n], vgs[n - 1]))
                   ELSE Slope(idsSmooth[i - 1], idsSmooth[i + 1],
                              QSub(vgs[i + 1], vgs[i - 1])) ]

\* what an Analysis Engine call leaves alone
EngineFrame ==
  UNCHANGED <<ctrlVars, halVars, files, clock, worker, callerPc, histVars,
              status, ffatFull, reqName, listing, fsPath, logQ, logPc, arg,
              rtVars>>

\* the response slot after a call of the named function
EngineOp(fn) == [Quiet EXCEPT !.op = "engine", !.res = fn]

\* a call of movingAverageSmooth with the arguments drawn at the start
callMovingAverageSmooth ==
  /\ arg.fn = "movingAverageSmooth"
  /\ ret' = [fn |-> arg.fn, result |-> movingAverageSmooth(arg.data, arg.windowSize)]
  /\ lastOp' = EngineOp(arg.fn)
  /\ EngineFrame

\* a call of calculateGm with the arguments drawn at the start
callCalculateGm ==
  /\ arg.fn = "calculateGm"
  /\ ret' = [fn |-> arg.fn, result |-> calculateGm(arg.ids, arg.vgs, arg.config)]
  /\ lastOp' = EngineOp(arg.fn)
  /\ EngineFrame

\* SSResult as its member initialisers leave it: the result of a calculation
\* that found no subthreshold region
SSResultDefault ==
  [ss_mVdec |-> 0, valid |-> FALSE, regionStart |-> 0, regionEnd |-> 0]

\* fabs(x) < 1e-12f, for the rationals of the model, whose denominators stay
\* far below 10^12
BelowNoiseFloor(x) == x[1] = 0

\* the element indices (counted from 0) at which calculateSS can mark a slope
\* valid: both smoothed neighbours above the noise floor and a gate step
\* above 1e-9
SlopeCandidates(idsSmooth, vgs) ==
  { i \in 1..(Len(idsSmooth) - 2) :
      /\ ~BelowNoiseFloor(idsSmooth[i])
      /\ ~BelowNoiseFloor(idsSmooth[i + 2])
      /\ ExceedsTiny(QSub(vgs[i + 2], vgs[i]), 1000000000) }

\* swings that pass the sanity check 60 <= ss_val <= 2000, in mV/dec
SwingValues == {60, 230, 2000}

\* calculateSS without the minimum of 10 samples
calculateSS_NoMinimum(ids, vgs) ==
  IF Len(ids) # Len(vgs)
  THEN {SSResultDefault}
  ELSE {SSResultDefault}
         \cup { [ss_mVdec |-> ss, valid |-> TRUE,
                 regionStart |-> 0, regionEnd |-> Len(ids) - 1] :
                ss \in SwingValues }

\* math_engine::calculateSS(ids, vgs): the set of results it can return.
\* The size check and the noise-floor and gate-step guards are the code's;
\* the logarithms and the regression are abstracted to the outcomes their
\* guards allow: no result, or a swing of 60..2000 mV/dec over a run of at
\* least 3 candidate slopes.
calculateSS(ids, vgs) ==
  IF Len(ids) # Len(vgs) \/ Len(ids) < 10
  THEN {SSResultDefault}
  ELSE LET idsSmooth == movingAverageSmooth(ids, 5)
           cand == SlopeCandidates(idsSmooth, vgs)
       IN {SSResultDefault}
            \cup { [ss_mVdec |-> ss, valid |-> TRUE,
                    regionStart |-> b, regionEnd |-> e] :
                   ss \in SwingValues,
                   b \in { x \in cand : \A j \in x..(x + 2) : j \in cand },
                   e \in { x \in cand : \A j \in (x - 2)..x : j \in cand } }

\* a call of calculateSS with the arguments drawn at the start
callCalculateSS ==
  /\ arg.fn = "calculateSS"
  /\ \E r \in calculateSS(arg.ids, arg.vgs) :
       ret' = [fn |-> arg.fn, result |-> r]
  /\ lastOp' = EngineOp(arg.fn)
  /\ EngineFrame

\* std::max_element followed by std::distance: the index, counted from 0, of
\* the first largest element of a non-empty array
MaxElementIndex(v) ==
  CHOOSE i \in 0..(Len(v) - 1) :
    /\ \A j \in 0..(Len(v) - 1) : ~QLess(v[i + 1], v[j + 1])
    /\ \A j \in 0..(i - 1) : QLess(v[j + 1], v[i + 1])

\* calculateVt returning the gate voltage at the second-derivative peak
\* wherever that peak lies
calculateVt_AnyPeak(gm, vgs, ids) ==
  IF Len(gm) # Len(vgs) \/ Len(gm) < 5
  THEN QZero
  ELSE LET maxIdx == MaxElementIndex(gm)
           maxGm == gm[maxIdx + 1]
       IN IF ~QLess(QZero, maxGm) \/ maxIdx < 2 \/ maxIdx >= Len(gm) - 2
          THEN QZero
          ELSE LET vgsAtMax == vgs[maxIdx + 1]
                   idsAtMax == ids[maxIdx + 1]
                   vt == QSub(vgsAtMax, QDiv(idsAtMax, maxGm))
               IN IF /\ ~BelowNoiseFloor(maxGm)
                     /\ QLess(QZero, vt) /\ QLess(vt, vgsAtMax)
                  THEN vt
                  ELSE vgs[MaxElementIndex(calculateGm(gm, vgs, GmConfig)) + 1]

\* math_engine::calculateVt(gm, vgs, ids); maxGm > 1e-12f is maxGm > 0 for
\* the rationals of the model
calculateVt(gm, vgs, ids) ==
  IF Len(gm) # Len(vgs) \/ Len(gm) < 5
  THEN QZero
  ELSE LET maxIdx == MaxElementIndex(gm)
           maxGm == gm[maxIdx + 1]
       IN IF ~QLess(QZero, maxGm) \/ maxIdx < 2 \/ maxIdx >= Len(gm) - 2
          THEN QZero
          ELSE LET vgsAtMax == vgs[maxIdx + 1]
                   idsAtMax == ids[maxIdx + 1]
                   vt == QSub(vgsAtMax, QDiv(idsAtMax, maxGm))
               IN IF /\ ~BelowNoiseFloor(maxGm)
                     /\ QLess(QZero, vt) /\ QLess(vt, vgsAtMax)
                  THEN vt
                  ELSE LET d2 == calculateGm(gm, vgs, GmConfig)
                           d2Idx == MaxElementIndex(d2)
                       IN IF d2Idx > 0 /\ d2Idx < Len(vgs)
                          THEN vgs[d2Idx + 1]
                          ELSE QZero

\* a call of calculateVt with the arguments drawn at the start
callCalculateVt ==
  /\ arg.fn = "calculateVt"
  /\ ret' = [fn |-> arg.fn, result |-> calculateVt(arg.gm, arg.vgs, arg.ids)]
  /\ lastOp' = EngineOp(arg.fn)
  /\ EngineFrame

\* CurveData(): the curve buffer as it is reset for each outer value
CurveData ==
  [vds |-> 0, vt |-> QZero, ss |-> 0, max_gm |-> QZero,
   vgs |-> <<>>, ids |-> <<>>, gm |-> <<>>]

\* MOSFETController::calculateCurveParams(curve): the set of curves it can
\* leave (calculateSS is a set of results)
calculateCurveParams(curve) ==
  IF Len(curve.ids) = 0 \/ Len(curve.vgs) = 0
  THEN {curve}
  ELSE LET gmConfig == [smoothingWindow |-> 5, useSavitzkyGolay |-> TRUE]
           gm == calculateGm(curve.ids, curve.vgs, gmConfig)
           vt == calculateVt(gm, curve.vgs, curve.ids)
           max_gm == IF Len(gm) = 0 THEN QZero
                     ELSE gm[MaxElementIndex(gm) + 1]
       IN { [curve EXCEPT !.gm = gm, !.vt = vt, !.max_gm = max_gm,
                          !.ss = IF ssResult.valid THEN ssResult.ss_mVdec
                                 ELSE 0] :
              ssResult \in calculateSS(curve.ids, curve.vgs) }

\* the metadata comment row "# VDS=..: Vt=.., SS=.. mV/dec, MaxGm=.. S"
MetadataLine(curve) ==
  [kind |-> "meta", vds |-> curve.vds, vt |-> curve.vt, ss |-> curve.ss,
   max_gm |-> curve.max_gm]

\* the end of an outer iteration in gate-sweep mode: the curve's parameters
\* are calculated and its metadata row is written
writeCurveMetadata ==
  /\ arg.fn = "calculateCurveParams"
  /\ \E curve \in calculateCurveParams(arg.curve) :
       ret' = [fn |-> arg.fn, curve |-> curve, line |-> MetadataLine(curve)]
  /\ lastOp' = EngineOp(arg.fn)
  /\ EngineFrame

\* SSResult with its swing held as a rational, as calculateSS constructs it
SSResultInit == [ss_mVdec |-> QZero, valid |-> FALSE]

\* fabs of a rational
QAbs(x) == <<Abs(x[1]), x[2]>>

\* a <= b on rationals
QLeq(a, b) == ~QLess(b, a)

\* calculateSS without the sanity check on the swing
ssFromRegression_NoSanityCheck(bestLen, xSize, slope, r2) ==
  IF bestLen >= 3 /\ xSize >= 3
     /\ ExceedsTiny(slope, 1000000000) /\ QLess(Q(9, 10), r2)
  THEN [ss_mVdec |-> QMul(QDiv(QInt(1), QAbs(slope)), QInt(1000)),
        valid |-> TRUE]
  ELSE SSResultInit

\* step 3 of calculateSS: from the best run (bestLen points, xSize of them
\* above 1e-15) and the slope and R^2 of the regression over it to the
\* result; ss_val = (1 / |slope|) * 1000
ssFromRegression(bestLen, xSize, slope, r2) ==
  IF bestLen >= 3 /\ xSize >= 3
     /\ ExceedsTiny(slope, 1000000000) /\ QLess(Q(9, 10), r2)
  THEN LET ss_val == QMul(QDiv(QInt(1), QAbs(slope)), QInt(1000))
       IN IF QLeq(QInt(60), ss_val) /\ QLeq(ss_val, QInt(2000))
          THEN [ss_mVdec |-> ss_val, valid |-> TRUE]
          ELSE SSResultInit
  ELSE SSResultInit

\* calculateCurveParams, step 4: curve.ss from the result of calculateSS
curveSS(ssResult) == IF ssResult.valid THEN ssResult.ss_mVdec ELSE QZero

\* the end of calculateSS followed by the assignment of curve.ss, on the
\* regression drawn at the start
callSSFromRegression ==
  /\ arg.fn = "ssFromRegression"
  /\ LET r == ssFromRegression(arg.bestLen, arg.xSize, arg.slope, arg.r2)
     IN ret' = [fn |-> arg.fn, ssResult |-> r, ss |-> curveSS(r),
                hasError |-> hasError_]
  /\ lastOp' = EngineOp(arg.fn)
  /\ EngineFrame

\* valid[i] = (slopes[i] > 0.5f), element i counted from 0
SlopeValid(slopes, i) == QLess(Q(1, 2), slopes[i + 1])

\* the consistency check with its bounds included: 0.5 <= ratio <= 2.0
RatioConsistent_Closed(ratio) == QLeq(Q(1, 2), ratio) /\ QLeq(ratio, QInt(2))

\* the consistency check of two successive slopes: ratio > 0.5f && ratio < 2.0f
RatioConsistent(ratio) == QLess(Q(1, 2), ratio) /\ QLess(ratio, QInt(2))

\* the body of the second loop of calculateSS for element i (from 0), on the
\* loop state st = [bestStart, bestLen, currStart, currLen]
RunStep(slopes, i, st) ==
  LET keep == IF st.currLen > st.bestLen
              THEN [st EXCEPT !.bestStart = st.currStart,
                              !.bestLen = st.currLen]
              ELSE st
  IN IF ~SlopeValid(slopes, i)
     THEN [keep EXCEPT !.currLen = 0, !.currStart = i + 1]
     ELSE IF st.currLen = 0 \/ ~SlopeValid(slopes, i - 1)
          THEN [st EXCEPT !.currStart = i, !.currLen = 1]
          ELSE IF RatioConsistent(QDiv(slopes[i + 1], slopes[i]))
               THEN [st EXCEPT !.currLen = st.currLen + 1]
               ELSE [keep EXCEPT !.currStart = i, !.currLen = 1]

\* the second loop of calculateSS from element i on
RECURSIVE RunLoop(_, _, _)
RunLoop(slopes, i, st) ==
  IF i >= Len(slopes) THEN st
  ELSE RunLoop(slopes, i + 1, RunStep(slopes, i, st))

\* step 2 of calculateSS: the start and the length of the best run
longestRun(slopes) ==
  LET st == RunLoop(slopes, 1, [bestStart |-> 0, bestLen |-> 0,
                                currStart |-> 0, currLen |-> 0])
  IN IF st.currLen > st.bestLen
     THEN [bestStart |-> st.currStart, bestLen |-> st.currLen]
     ELSE [bestStart |-> st.bestStart, bestLen |-> st.bestLen]

\* step 2 of calculateSS on the slopes drawn at the start
callLongestRun ==
  /\ arg.fn = "longestRun"
  /\ ret' = [fn |-> arg.fn, run |-> longestRun(arg.slopes)]
  /\ lastOp' = EngineOp(arg.fn)
  /\ EngineFrame

(* ------------------------------------------------------------------ *)
(* LogBuffer: the in-memory log the web interface reads                 *)
(* ------------------------------------------------------------------ *)
\* entries handed to addLog in one behaviour
MaxLogs == 53

\* everything but the log buffer, its history and the response
BufferFrame ==
  UNCHANGED <<ctrlVars, halVars, files, clock, worker, callerPc, histVars,
              status, ffatFull, reqName, listing, fsPath, logQ, logPc, arg,
              mutex_, starting, serial, heap>>

\* the outcome of a call on the log buffer
BufferOp(op) == [Quiet EXCEPT !.op = op]

\* the vector after logs_[index] = entry (index counted from 0)
Overwrite(logs, index, entry) == [logs EXCEPT ![index + 1] = entry]

\* LogBuffer::addLog(level, message) with the mutex free: the entry takes
\* the place of the oldest one once the buffer is full
storeLog(buf, entry) ==
  IF buf.buffer_full_
  THEN [buf EXCEPT !.logs_ = Overwrite(@, buf.write_index_, entry),
                   !.write_index_ = (@ + 1) % MAX_LOGS]
  ELSE IF Len(buf.logs_) + 1 >= MAX_LOGS
       THEN [buf EXCEPT !.logs_ = Append(@, entry),
                        !.buffer_full_ = TRUE,
                        !.write_index_ = 0]
       ELSE [buf EXCEPT !.logs_ = Append(@, entry)]

\* LogBuffer::addLog: without a mutex the call returns at once
addLog ==
  /\ logHist.adds < MaxLogs
  /\ IF ~logBuf.mutex_
     THEN UNCHANGED <<logBuf, logHist>>
     ELSE /\ logBuf' = storeLog(logBuf, logHist.adds + 1)
          /\ logHist' = [adds |-> logHist.adds + 1,
                         kept |-> Append(logHist.kept, logHist.adds + 1)]
  /\ lastOp' = BufferOp("addLog")
  /\ ret' = NoCall
  /\ BufferFrame

\* the index getLogsJSON reads its i-th entry from (both counted from 0),
\* ignoring where the next entry will be written
ReadIndex_Unrotated(buf, i) == i

\* the index getLogsJSON reads its i-th entry from (both counted from 0)
ReadIndex(buf, i) ==
  IF buf.buffer_full_ THEN (buf.write_index_ + i) % MAX_LOGS ELSE i

\* the entries in the order LogBuffer::getLogsJSON writes them
LogsRead(buf) ==
  [i \in 1..Len(buf.logs_) |-> buf.logs_[ReadIndex(buf, i - 1) + 1]]

\* LogBuffer::getLogsJSON: "[]" without a mutex
getLogsJSON ==
  /\ ret' = [fn |-> "getLogsJSON",
             logs |-> IF logBuf.mutex_ THEN LogsRead(logBuf) ELSE <<>>]
  /\ lastOp' = BufferOp("getLogsJSON")
  /\ UNCHANGED <<logBuf, logHist>>
  /\ BufferFrame

\* LogBuffer::clear
clearLogs ==
  /\ IF ~logBuf.mutex_
     THEN UNCHANGED <<logBuf, logHist>>
     ELSE /\ logBuf' = [logBuf EXCEPT !.logs_ = <<>>,
                                      !.write_index_ = 0,
                                      !.buffer_full_ = FALSE]
          /\ logHist' = [logHist EXCEPT !.kept = <<>>]
  /\ lastOp' = BufferOp("clear")
  /\ ret' = NoCall
  /\ BufferFrame

(* ------------------------------------------------------------------ *)
(* The output file of a completed sweep                                 *)
(* ------------------------------------------------------------------ *)
\* A float is held as an integer count of 2^-27: every float of 0.0625 or
\* more that the sweeps below compute is a whole number of these units.

\* the largest power of two that is at most x, for x >= p > 0
RECURSIVE Pow2Floor(_, _)
Pow2Floor(x, p) == IF 2 * p > x THEN p ELSE Pow2Floor(x, 2 * p)

\* rounding of an exact sum to a float: 24 significant bits, to nearest,
\* ties to the even significand
RoundF32(x) ==
  IF x < 16777216 THEN x
  ELSE LET ulp == Pow2Floor(x, 16777216) \div 8388608
           q == x \div ulp
           r == x % ulp
       IN IF 2 * r < ulp \/ (2 * r = ulp /\ q % 2 = 0)
          THEN q * ulp
          ELSE (q + 1) * ulp

\* v += step on floats
Fadd(v, step) == RoundF32(v + step)

\* the float nearest to a voltage given in mV as a decimal number of volts
FloatOf(mv) ==
  CASE mv = 0 -> 0
    [] mv = 100 -> 13421773
    [] mv = 250 -> 33554432
    [] mv = 500 -> 67108864
    [] mv = 1000 -> 134217728

\* "%.3f" of a float of the sweep, as a number of mV
FormatMilli(f) == (f + 67109) \div 134218

\* the values a loop for (float v = start; v <= end; v += step) visits when
\* nothing stops the run
RECURSIVE LoopValues(_, _, _)
LoopValues(v, end, step) ==
  IF v <= end THEN <<v>> \o LoopValues(Fadd(v, step), end, step) ELSE <<>>

\* a data row "timestamp,vds,vgs,vsh,ids": the two voltages as printed
DataRow(vds, vgs) ==
  [kind |-> "row", vds |-> FormatMilli(vds), vgs |-> FormatMilli(vgs)]

\* the comment row "# VDS=...V: Vt=..., SS=..., MaxGm=..." of a curve
CommentRow(vds) == [kind |-> "meta", vds |-> FormatMilli(vds), vgs |-> 0]

\* the rows of one outer iteration
CurveRows(sweepVDS, outer, inner) ==
  [ k \in 1..Len(inner) |->
      IF sweepVDS THEN DataRow(inner[k], outer) ELSE DataRow(outer, inner[k]) ]

\* an outer iteration that writes the comment row ahead of the data rows,
\* in either mode
CurveLines_CommentFirst(sweepVDS, outer, inner) ==
  <<CommentRow(outer)>> \o CurveRows(sweepVDS, outer, inner)

\* an outer iteration of performSweep: the data rows, then in gate-sweep
\* mode (sweepVDS false) the comment row of the curve
CurveLines(sweepVDS, outer, inner) ==
  CurveRows(sweepVDS, outer, inner)
    \o (IF sweepVDS THEN <<>> ELSE <<CommentRow(outer)>>)

\* the lines of the outer iterations, one after the other
RECURSIVE SweepLines(_, _, _)
SweepLines(sweepVDS, outers, inner) ==
  IF outers = <<>> THEN <<>>
  ELSE CurveLines(sweepVDS, Head(outers), inner)
         \o SweepLines(sweepVDS, Tail(outers), inner)

\* the values of the loop over a range <<start, end, step>> given in mV
RangeValues(r) == LoopValues(FloatOf(r[1]), FloatOf(r[2]), FloatOf(r[3]))

\* the lines performSweep writes after the header in a run that is neither
\* cancelled nor stopped
SweepFile(sweepVDS, vdsR, vgsR) ==
  LET outers == RangeValues(IF sweepVDS THEN vgsR ELSE vdsR)
      inner == RangeValues(IF sweepVDS THEN vdsR ELSE vgsR)
  IN SweepLines(sweepVDS, outers, inner)

\* a run of performSweep to completion on the configuration drawn at the
\* start
runPerformSweep ==
  /\ arg.fn = "performSweep"
  /\ ret' = [fn |-> arg.fn, lines |-> SweepFile(arg.sweepVDS, arg.vds, arg.vgs)]
  /\ lastOp' = EngineOp(arg.fn)
  /\ EngineFrame

(* ------------------------------------------------------------------ *)
(* Asynchronous logging                                                 *)
(* ------------------------------------------------------------------ *)
\* the outcome of a log call, and of a step of the log task
LogOp(res) == [Quiet EXCEPT !.op = "log", !.res = res]

\* everything but the logging queue and the position of its producer
LogFrame ==
  UNCHANGED <<ctrlVars, halVars, files, clock, worker, callerPc, histVars,
              status, ffatFull, reqName, listing, fsPath, arg, ret,
              mutex_, starting, logBuf, logHist>>

\* copies strdup makes in one behaviour
MaxCopies == 66

\* strdup(msg): the copy gets the next id and is the one being sent
Strdup(h) == [h EXCEPT !.next = @ + 1, !.live = @ \cup {h.next},
                       !.pending = h.next]

\* free(copy)
FreeCopy(h, copy) == [h EXCEPT !.live = @ \ {copy},
                               !.released = Append(@, copy)]

\* xQueueSend puts the pointer to the copy at the back of the queue
Enqueue(q, msg, copy) ==
  [q EXCEPT !.items = Append(@, [msg |-> msg, copy |-> copy])]

\* logToSerialAsync(msg) up to its return or to the wait inside xQueueSend
logToSerialAsync(msg) ==
  /\ logPc = "idle"
  /\ heap.next <= MaxCopies
  /\ Len(serial) < MaxCopies
  /\ IF ~logQ.created
     THEN \* fallback: Serial.println in the caller
          /\ serial' = Append(serial, [msg |-> msg, copy |-> 0])
          /\ lastOp' = LogOp("printed")
          /\ UNCHANGED <<logQ, logPc, heap>>
     ELSE \/ \* strdup has no memory
             /\ lastOp' = LogOp("no_memory")
             /\ UNCHANGED <<logQ, logPc, heap, serial>>
          \/ \* the copy is made; xQueueSend(g_log_queue, &copy, 5 ms)
             IF Len(logQ.items) < LOG_QUEUE_DEPTH
             THEN /\ logQ' = Enqueue(logQ, msg, heap.next)
                  /\ heap' = [Strdup(heap) EXCEPT !.pending = 0]
                  /\ lastOp' = LogOp("queued")
                  /\ UNCHANGED <<logPc, serial>>
             ELSE \* the queue is full: the caller blocks on it
                  /\ logPc' = "blocked"
                  /\ heap' = Strdup(heap)
                  /\ lastOp' = Quiet
                  /\ UNCHANGED <<logQ, serial>>
  /\ LogFrame

\* the blocked xQueueSend ends: room was made and the message goes in, or
\* the 5 ms are over and the copy is freed
xQueueSendEnds(msg) ==
  /\ logPc = "blocked"
  /\ IF Len(logQ.items) < LOG_QUEUE_DEPTH
     THEN /\ logQ' = Enqueue(logQ, msg, heap.pending)
          /\ heap' = [heap EXCEPT !.pending = 0]
          /\ lastOp' = LogOp("queued_after_wait")
     ELSE /\ lastOp' = LogOp("dropped_after_wait")
          /\ heap' = [FreeCopy(heap, heap.pending) EXCEPT !.pending = 0]
          /\ UNCHANGED logQ
  /\ logPc' = "idle"
  /\ UNCHANGED serial
  /\ LogFrame

\* what logTask frees after Serial.println(msg), ignoring the message
Consumed_Kept(h, item) == h

\* what logTask frees after Serial.println(msg)
Consumed(h, item) == FreeCopy(h, item.copy)

\* logTask: xQueueReceive, Serial.println, free
logTask ==
  /\ logQ.created
  /\ logQ.items # <<>>
  /\ logQ' = [logQ EXCEPT !.items = Tail(@)]
  /\ serial' = Append(serial, Head(logQ.items))
  /\ heap' = Consumed(heap, Head(logQ.items))
  /\ lastOp' = Quiet
  /\ UNCHANGED logPc
  /\ LogFrame

(* ------------------------------------------------------------------ *)
(* Storage Manager: requests on stored files                            *)
(* ------------------------------------------------------------------ *)
\* the response to a file request
FileOp(op, res) == [Quiet EXCEPT !.op = op, !.res = res]

\* the steps of the file handlers leave the controller and the tasks alone
FileFrame ==
  UNCHANGED <<ctrlVars, halVars, clock, worker, callerPc, histVars, status,
              ffatFull, reqName, engVars>>

\* handleDeleteFile: POST /api/files/delete?file=<reqName>
handleDeleteFile(hasParam) ==
  /\ callerPc = "idle"
  /\ IF ~hasParam
     THEN /\ lastOp' = FileOp("delete", "missing_file")
          /\ fsPath' = <<>>
          /\ UNCHANGED files
     ELSE IF ~isValidFilename(reqName)
     THEN /\ lastOp' = FileOp("delete", "invalid_filename")
          /\ fsPath' = <<>>
          /\ UNCHANGED files
     ELSE \* FileManager::deleteFile; FFat.remove fails on a missing file
          /\ files' = deleteFile(files, reqName)
          /\ fsPath' = reqName
          /\ lastOp' = FileOp("delete", IF reqName \in files
                                         THEN "success" ELSE "delete_failed")
  /\ UNCHANGED listing
  /\ FileFrame

\* handleDownloadFile: GET /api/files/download?file=<reqName>
handleDownloadFile(hasParam) ==
  /\ callerPc = "idle"
  /\ lastOp' = FileOp("download",
                 IF ~hasParam THEN "Missing file parameter"
                 ELSE IF ~isValidFilename(reqName) THEN "Invalid filename"
                 ELSE IF reqName \in files THEN "sent" ELSE "not_found")
  /\ fsPath' = IF hasParam /\ isValidFilename(reqName) THEN reqName ELSE <<>>
  /\ UNCHANGED <<files, listing>>
  /\ FileFrame

\* FileManager::readFile(reqName)
readFile ==
  /\ callerPc = "idle"
  /\ IF ~isValidFilename(reqName)
     THEN lastOp' = FileOp("read", "rejected") /\ fsPath' = <<>>
     ELSE /\ lastOp' = FileOp("read", IF reqName \in files THEN "content"
                                                            ELSE "open_failed")
          /\ fsPath' = reqName
  /\ UNCHANGED <<files, listing>>
  /\ FileFrame

\* FileManager::streamFileToWeb(server, reqName)
streamFileToWeb ==
  /\ callerPc = "idle"
  /\ IF ~isValidFilename(reqName)
     THEN lastOp' = FileOp("stream", "Invalid filename") /\ fsPath' = <<>>
     ELSE /\ lastOp' = FileOp("stream", IF reqName \in files
                                        THEN "streamed" ELSE "File not found")
          /\ fsPath' = reqName
  /\ UNCHANGED <<files, listing>>
  /\ FileFrame

\* FileManager::saveMeasurement(reqName, csvData), uptime = millis() / 1000
saveMeasurement(uptime) ==
  /\ callerPc = "idle"
  /\ LET filename == reqName \o <<"_">> \o ToDecimal(uptime) \o CsvExt IN
     \E room \in (IF Cardinality(files) >= MAX_FILES
                   THEN deleteOldestFile(files) \cup {files} ELSE {files}) :
       /\ fsPath' = filename
       /\ \/ \* FFat.open(fullPath, "w") fails
             /\ files' = room
             /\ lastOp' = FileOp("save", "Failed to create file")
          \/ \* the file is created or truncated, written and closed
             /\ files' = room \cup {filename}
             /\ lastOp' = FileOp("save", "saved")
  /\ UNCHANGED listing
  /\ FileFrame

\* handleListFiles: GET /api/files
handleListFiles ==
  /\ callerPc = "idle"
  /\ \E order \in DirectoryOrders(files) : listing' = listFiles(order)
  /\ lastOp' = FileOp("list", "ok")
  /\ fsPath' = <<>>
  /\ UNCHANGED files
  /\ FileFrame

\* the data partition runs out of room while a run writes its rows: from now
\* on currentFile_.printf stores nothing and returns 0
FillPartition ==
  /\ ~ffatFull
  /\ ffatFull' = TRUE
  /\ lastOp' = Quiet
  /\ UNCHANGED <<ctrlVars, halVars, files, clock, worker, callerPc, histVars,
                 status, reqName, listing, fsPath, engVars>>

\* time(): a second goes by
Tick ==
  /\ clock < MaxClock
  /\ clock' = clock + 1
  /\ lastOp' = Quiet
  /\ UNCHANGED <<ctrlVars, halVars, files, worker, callerPc, histVars, fmVars>>

\* runs whose output file meets a full partition, as the seconds go by
NextIO ==
  \/ \E config \in ValidConfigs, ts \in NoTimestamp, ffat \in {EmptyFFat} :
        handleStartMeasurement(config, ts, ffat)
  \/ handleCancelMeasurement
  \/ cancelMeasurementFinish
  \/ WorkerStep
  \/ FillPartition
  \/ Tick

SpecIO == InitOneTask /\ [][NextIO]_vars

\* the longest stem of an enumerated file parameter
MaxStemLen == 2

\* characters a file parameter is made of: a letter, a digit, the three
\* punctuation marks the validation allows and three it does not
NameChars == {"a", "9", "_", "-", ".", "/", "\\", " "}

\* a string of n letters
Padding(n) == [i \in 1..n |-> "a"]

\* the names the validation is asked about
NameExamples ==
  { <<".", ".", "/", "e", "t", "c", "/", "p", "a", "s", "s", "w", "d">>,
    <<"a", "/", "b">> \o CsvExt,
    <<"a", " ", "b">> \o CsvExt,
    GenFilename(<<"r", "u", "n">>, 1700000000),
    Padding(MaxFilenameLen - Len(CsvExt)) \o CsvExt,
    Padding(MaxFilenameLen - Len(CsvExt) + 1) \o CsvExt }

\* every stem up to MaxStemLen, with and without the extension
NameInputs ==
  LET stems == UNION { [1..n -> NameChars] : n \in 0..MaxStemLen }
  IN stems \cup { st \o CsvExt : st \in stems } \cup NameExamples

\* seconds since boot at which a measurement is saved
Uptimes == {0, 1}

\* the measurement directory the file requests meet
StoredDir ==
  { GenFilename(<<"b">>, 2), GenFilename(<<"a">>, 10), GenFilename(<<"c">>, 10) }

InitFiles ==
  \E name \in NameInputs \cup StoredDir :
    BootWith([w \in Workers |-> Absent], StoredDir, name)

NextFiles ==
  \/ \E hasParam \in BOOLEAN : handleDeleteFile(hasParam)
  \/ \E hasParam \in BOOLEAN : handleDownloadFile(hasParam)
  \/ readFile
  \/ streamFileToWeb
  \/ \E uptime \in Uptimes : saveMeasurement(uptime)

SpecFiles == InitFiles /\ [][NextFiles]_vars

\* the names the listing is exercised with: stored files to delete and base
\* names to save under
ListInputs == StoredDir \cup { <<"d">>, <<"d", "_", "7">> }

InitList ==
  \E name \in ListInputs :
    BootWith([w \in Workers |-> Absent], StoredDir, name)

NextList ==
  \/ handleListFiles
  \/ \E hasParam \in BOOLEAN : handleDeleteFile(hasParam)
  \/ \E uptime \in Uptimes : saveMeasurement(uptime)

SpecList == InitList /\ [][NextList]_vars

\* a measurement directory that holds MAX_FILES files
FullDir == { GenFilename(<<"m">>, t) : t \in 1..MAX_FILES }

InitFull ==
  BootWith([w \in Workers |-> IF w = 1 THEN NoTask ELSE Absent], FullDir, <<"d">>)

\* runs and saves that meet a full directory
NextFull ==
  \/ \E config \in ValidConfigs, ts \in NoTimestamp, ffat \in {EmptyFFat} :
        handleStartMeasurement(config, ts, ffat)
  \/ WorkerStep
  \/ \E uptime \in Uptimes : saveMeasurement(uptime)

SpecFull == InitFull /\ [][NextFull]_vars

\* the longest array given to a smoothing function
MaxData == 4
\* the largest window size tried
MaxWindow == 5

\* sample values: small integers, one of them negative, one far from the rest
SampleValues == {0 - 2, 0, 1, 7}

\* every array of up to MaxData sample values
DataInputs ==
  UNION { [1..n -> {QInt(x) : x \in SampleValues}] : n \in 0..MaxData }

SmoothInputs ==
  { [fn |-> "movingAverageSmooth", data |-> d, windowSize |-> w] :
      d \in DataInputs, w \in 0..MaxWindow }

InitSmooth ==
  \E input \in SmoothInputs :
    BootState([w \in Workers |-> Absent], {}, <<>>, TRUE, input)

NextSmooth == callMovingAverageSmooth

SpecSmooth == InitSmooth /\ [][NextSmooth]_vars

\* the longest curve given to the Analysis Engine
MaxCurve == 6

\* currents of a curve: a slow rise and a sharp one
CurrentValues == {0, 1, 2, 3, 40, 41}

\* the arrays of 3..MaxCurve currents that never decrease
RisingCurrents ==
  { c \in UNION { [1..n -> {QInt(x) : x \in CurrentValues}] : n \in 3..MaxCurve } :
      \A i \in 1..(Len(c) - 1) : ~QLess(c[i + 1], c[i]) }

\* the gate voltages of a curve of n samples: 0 V upwards in steps of 0.1 V
GateGrid(n) == [ i \in 1..n |-> Q(i - 1, 10) ]

GmInputs ==
  { [fn |-> "calculateGm", ids |-> c, vgs |-> GateGrid(Len(c)),
     config |-> [GmConfig EXCEPT !.useSavitzkyGolay = sg]] :
      c \in RisingCurrents, sg \in BOOLEAN }

InitGm ==
  \E input \in GmInputs :
    BootState([w \in Workers |-> Absent], {}, <<>>, TRUE, input)

NextGm == callCalculateGm

SpecGm == InitGm /\ [][NextGm]_vars

\* calculateSS is called with arrays of up to MaxSS samples each
MaxSS == 11

\* a flat current of 0 or 1 of the given length
FlatCurrents == { [ i \in 1..n |-> QInt(c) ] : n \in 0..MaxSS, c \in {0, 1} }

SSInputs ==
  { [fn |-> "calculateSS", ids |-> ids, vgs |-> GateGrid(m)] :
      ids \in FlatCurrents, m \in 0..MaxSS }

InitSS ==
  \E input \in SSInputs :
    BootState([w \in Workers |-> Absent], {}, <<>>, TRUE, input)

NextSS == callCalculateSS

SpecSS == InitSS /\ [][NextSS]_vars

\* calculateVt is called with arrays of 4..MaxVt samples
MaxVt == 5

GmValues == {0, 10, 11}

\* transconductance arrays
GmArrays ==
  UNION { [1..n -> { QInt(g) : g \in GmValues }] : n \in 4..MaxVt }

\* gate voltages in steps of 0.1 V from the given start
GateGridFrom(start, n) == [ i \in 1..n |-> QAdd(start, Q(i - 1, 10)) ]

VtInputs ==
  { [fn |-> "calculateVt", gm |-> gm,
     vgs |-> GateGridFrom(start, Len(gm)),
     ids |-> [ i \in 1..Len(gm) |-> QInt(c) ]] :
      gm \in GmArrays, start \in {QZero, Q(1, 2)}, c \in {0, 1} }

InitVt ==
  \E input \in VtInputs :
    BootState([w \in Workers |-> Absent], {}, <<>>, TRUE, input)

NextVt == callCalculateVt

SpecVt == InitVt /\ [][NextVt]_vars

\* the currents of a stub with Ids = 1e-9 * exp(Vgs / 0.1) at the gate
\* voltages 0, 0.5 and 1.0 V, in nA, rounded: 1, e^5, e^10
StubCurrents == <<QInt(1), QInt(148), QInt(22026)>>

\* the gate voltages 0, 0.5, 1.0 V
StubGates == <<QZero, Q(1, 2), QInt(1)>>

\* the curve buffer at the end of an outer iteration
CurveWith(ids, vgs) == [CurveData EXCEPT !.ids = ids, !.vgs = vgs]

CurveInputs ==
  { [fn |-> "calculateCurveParams", curve |-> c] :
      c \in {CurveWith(StubCurrents, StubGates)}
              \cup { CurveWith(ids, GateGrid(Len(ids))) :
                       ids \in FlatCurrents \cup RisingCurrents } }

InitCurve ==
  \E input \in CurveInputs :
    BootState([w \in Workers |-> Absent], {}, <<>>, TRUE, input)

NextCurve == writeCurveMetadata

SpecCurve == InitCurve /\ [][NextCurve]_vars

\* voltage ranges <<start, end, step>> in mV
GridRanges ==
  { <<start, end, step>> :
      start \in {0, 500}, end \in {0, 500, 1000}, step \in {100, 250, 500} }

GridInputs ==
  { [fn |-> "performSweep", sweepVDS |-> m, vds |-> d, vgs |-> g] :
      m \in BOOLEAN, d \in GridRanges, g \in GridRanges }

InitGrid ==
  \E input \in GridInputs :
    BootState([w \in Workers |-> Absent], {}, <<>>, TRUE, input)

NextGrid == runPerformSweep

SpecGrid == InitGrid /\ [][NextGrid]_vars

\* slopes of the regression in decades/V: none, too flat (4000 mV/dec), the
\* two ends of the accepted range and values around and inside it, one
\* falling
FitSlopes ==
  { QZero, Q(1, 4), Q(1, 2), Q(200, 401), QInt(1), Q(100, 23), Q(50, 3),
    QInt(17), Q(0 - 5, 1) }

\* R^2 of the regression
FitQualities == { QZero, Q(9, 10), Q(91, 100), QInt(1) }

\* the greatest bestLen drawn
MaxRun == 4

FitInputs ==
  { [fn |-> "ssFromRegression", bestLen |-> n, xSize |-> k,
     slope |-> s, r2 |-> q] :
      n \in 0..MaxRun, k \in 0..MaxRun, s \in FitSlopes, q \in FitQualities }

InitFit ==
  \E input \in { i \in FitInputs : i.xSize <= i.bestLen } :
    BootState([w \in Workers |-> Absent], {}, <<>>, TRUE, input)

NextFit == callSSFromRegression

SpecFit == InitFit /\ [][NextFit]_vars

\* the greatest number of points whose slopes are drawn
MaxPoints == 7

\* local slopes in decades/V: 0 where step 1 left the point invalid
SlopeValues == {0, 1, 2, 3, 8}

\* slope arrays as step 1 of calculateSS leaves them: the first and the last
\* element are never written
SlopeArrays ==
  UNION { { [ i \in 1..n |-> IF i = 1 \/ i = n THEN QZero ELSE QInt(f[i]) ] :
              f \in [2..(n - 1) -> SlopeValues] } : n \in 3..MaxPoints }

RunInputs == { [fn |-> "longestRun", slopes |-> s] : s \in SlopeArrays }

InitRun ==
  \E input \in RunInputs :
    BootState([w \in Workers |-> Absent], {}, <<>>, TRUE, input)

NextRun == callLongestRun

SpecRun == InitRun /\ [][NextRun]_vars

\* the log buffer under additions, reads and clears
InitBuffer ==
  \E created \in BOOLEAN :
    /\ BootCore([w \in Workers |-> Absent], {}, <<>>, TRUE, NoCall)
    /\ mutex_ = [created |-> TRUE, holder |-> 0]
    /\ logBuf = EmptyLogBuffer(created)

NextBuffer ==
  \/ addLog
  \/ getLogsJSON
  \/ clearLogs

SpecBuffer == InitBuffer /\ [][NextBuffer]_vars

\* requests inside the limits start checks (no voltage above 5 V, no gate
\* start below 0 V): one within the range of the DACs, one with a gate point
\* above it, one with a drain point below it, one with a drain point above it
EnvelopeConfigs ==
  { MkConfig(TwoPoints, OnePoint, 100, "SWEEP_VGS", <<"r">>),
    MkConfig(<<0, 4000, 4000>>, OnePoint, 100, "SWEEP_VGS", <<"r">>),
    MkConfig(OnePoint, <<0 - 1000, 0, 1000>>, 100, "SWEEP_VGS", <<"r">>),
    MkConfig(OnePoint, <<0, 4000, 4000>>, 100, "SWEEP_VDS", <<"r">>) }

NextEnvelope ==
  \/ \E config \in EnvelopeConfigs, ts \in NoTimestamp, ffat \in {EmptyFFat} :
        handleStartMeasurement(config, ts, ffat)
  \/ WorkerStep

SpecEnvelope == InitOneTask /\ [][NextEnvelope]_vars

\* the messages that are logged
LogMessages == {"msg"}

InitLog ==
  \E created \in BOOLEAN :
    BootState([w \in Workers |-> Absent], {}, <<>>, created, NoCall)

NextLog ==
  \/ \E msg \in LogMessages : logToSerialAsync(msg)
  \/ \E msg \in LogMessages : xQueueSendEnds(msg)
  \/ logTask

SpecLog == InitLog /\ [][NextLog]_vars

\* the log task is blocked in xQueueReceive and runs whenever a message is
\* queued: loop() sleeps for good and the sweep task sleeps while settling
SpecLogFair == SpecLog /\ WF_vars(logTask)

\* requests that sweep, and the progress polled while they run
ProgressConfigs ==
  { MkConfig(TwoPoints, OnePoint, 100, "SWEEP_VGS", <<"r">>),
    MkConfig(<<0, 1000, 0 - 500>>, OnePoint, 100, "SWEEP_VGS", <<"r">>) }

NextProgress ==
  \/ \E config \in ProgressConfigs, ts \in NoTimestamp,
        ffat \in {EmptyFFat} :
        handleStartMeasurement(config, ts, ffat)
  \/ handleCancelMeasurement
  \/ cancelMeasurementFinish
  \/ WorkerStep
  \/ handleGetProgress
  \/ getProgressError
  \/ getProgressMessage
  \/ sendProgress

SpecProgress == InitOneTask /\ [][NextProgress]_vars

\* starts issued from two contexts at once, with the mutex begin() created
\* or with none, the heap having room for two tasks
StartConfigs ==
  { MkConfig(OnePoint, OnePoint, 100, "SWEEP_VGS", <<"r">>),
    MkConfig(TwoPoints, <<0, 6000, 1000>>, 100, "SWEEP_VGS", <<"r">>),
    MkConfig(OnePoint, OnePoint, 100, "SWEEP_VGS", <<"a", " ", "b">>) }

InitStarts ==
  \E created \in BOOLEAN :
    /\ BootCore([w \in Workers |-> NoTask], {}, <<>>, TRUE, NoCall)
    /\ mutex_ = [created |-> created, holder |-> 0]
    /\ logBuf = EmptyLogBuffer(TRUE)

NextStarts ==
  \/ \E c \in Callers, config \in StartConfigs : startEnter(c, config)
  \/ \E c \in Callers : startWaitEnds(c)
  \/ \E c \in Callers : startCheck(c)
  \/ \E c \in Callers : startCommit(c)
  \/ WorkerStep

SpecStarts == InitStarts /\ [][NextStarts]_vars

\* a cancel in the request context while other contexts issue starts
NextCancelRace ==
  \/ \E c \in Callers :
       startEnter(c, MkConfig(OnePoint, OnePoint, 100, "SWEEP_VGS", <<"r">>))
  \/ \E c \in Callers : startWaitEnds(c)
  \/ \E c \in Callers : startCheck(c)
  \/ \E c \in Callers : startCommit(c)
  \/ handleCancelMeasurement
  \/ cancelMeasurementFinish
  \/ WorkerStep

SpecCancelRace == InitOneTask /\ [][NextCancelRace]_vars

(* ------------------------------------------------------------------ *)
(* Properties                                                           *)
(* ------------------------------------------------------------------ *)
\* the task of the most recently accepted run is before or inside its loops,
\* and nobody has cancelled that run
RunActive ==
  /\ curRun # 0
  /\ worker[curRun].pc \in {"start", "outer", "inner", "settle"}
  /\ cancelAt = "none"

\* a start was turned away at admission
Rejections == {"AlreadyRunning", "InvalidConfig", "StorageExhausted"}

\* C1: while an accepted run has neither completed, been cancelled nor
\* failed, every further start is rejected (as AlreadyRunning when it gets
\* past the handler's validation and capacity check).
C1_FurtherStartRejected ==
  [][(RunActive /\ lastOp'.op = "start") => lastOp'.res \in Rejections]_vars

\* C2: at most one sweep task is alive at any time.
C2_OneLiveWorker == Cardinality({w \in Workers : Live(w)}) <= 1

\* the latest run was cancelled while its task stood at stage st, and both
\* the cancel call and the task have finished
CancelledAndOver(st) ==
  /\ callerPc = "idle"
  /\ curRun # 0
  /\ cancelAt \in st
  /\ worker[curRun].pc = "done"

\* C3: once a cancelled run's cancel call and task have both finished, the
\* directory holds no file of that run, wherever the task stood when the
\* cancel arrived.
C3_NoFileAfterCancel ==
  CancelledAndOver({"before_open", "sweeping", "after_last_sample", "leaving"})
    => runFile \notin files

\* C4: a cancel that arrives after the task has taken its last sample leaves
\* the run's file in the directory.
C4_LastSampleRaceKeepsFile ==
  CancelledAndOver({"after_last_sample"}) => runFile \in files

\* C5: a task that has left performSweep has called hal::shutdown.
C5_ShutdownOnEveryExit ==
  \A w \in Workers : worker[w].pc = "close" => worker[w].shut

\* both steps positive and all four range ends within 0..5 V
WithinContract(config) ==
  /\ config.vgs_step > 0
  /\ config.vds_step > 0
  /\ \A v \in {config.vgs_start, config.vgs_end, config.vds_start,
               config.vds_end} : 0 <= v /\ v <= MaxVoltage_mV

\* C6: a start is accepted only for a configuration with positive steps and
\* voltages within the envelope.
C6_BadConfigRejected ==
  (lastOp.op = "start" /\ lastOp.res = "Started") => WithinContract(config_)

\* C7: a start rejected as AlreadyRunning, InvalidConfig or StorageExhausted
\* leaves the controller's fields, the DAC outputs, the directory and the
\* tasks as they were.
C7_RejectedStartNoEffect ==
  [][(lastOp'.op = "start" /\ lastOp'.res \in Rejections)
       => UNCHANGED <<ctrlVars, halVars, files, worker>>]_vars

\* a start was rejected as AlreadyRunning in the middle of a sweep
C7_Witness ==
  /\ lastOp.op = "start"
  /\ lastOp.res = "AlreadyRunning"
  /\ progressPercent_ > 0
  /\ dacVGS > 0
  /\ files # {}

\* usage has reached the threshold, or free space is below the floor
Exhausted(ffat) ==
  \/ ffat.usedBytes * 100 >= MAX_STORAGE_USAGE_PCT * ffat.totalBytes
  \/ ffat.totalBytes - ffat.usedBytes < MinFreeBytes

C9_IdleCancelNoOp ==
  [][(callerPc = "idle" /\ ~measuring_ /\ lastOp'.op = "cancel")
       => /\ lastOp'.res = "NoOp"
          /\ UNCHANGED <<ctrlVars, halVars, files, clock, worker, callerPc>>]_vars

\* a cancel was a no-op after a run completed, and the run's file is stored
C9_Witness ==
  /\ lastOp.op = "cancel"
  /\ lastOp.res = "NoOp"
  /\ progressPercent_ = 100
  /\ ~cancelled_
  /\ runFile \in files
  /\ \A w \in Workers : ~Live(w)

\* C10: the progress never decreases except where a start resets it (or the
\* firmware restarts), and an accepted start sets it to 0.
C10_ProgressMonotone ==
  [][/\ lastOp'.op \notin {"start", "reboot"}
          => progressPercent_' >= progressPercent_
     /\ (lastOp'.op = "start" /\ lastOp'.res = "Started")
          => progressPercent_' = 0]_vars

\* C11: every status getProgress returns has a progress_percent in 0..100.
C11_ProgressInRange ==
  callerPc = "progress_send"
    => (0 <= status.progress_percent /\ status.progress_percent <= 100)

\* the message getProgress would build from the other fields of one status
\* (cancelling or not, which the status does not carry)
MessagesOf(st) ==
  IF ~st.is_running
  THEN { IF st.has_error THEN <<"Error: ", st.error_message>> ELSE <<"Idle">> }
  ELSE { <<"Cancelling...">>,
         <<"Measuring VDS = ", Centi(st.current_vds), "V">> }

\* C12: the fields of a returned status agree with one another, as the
\* fields of a single instant do.
C12_ConsistentSnapshot ==
  callerPc = "progress_send" => status.message \in MessagesOf(status)

\* task w takes a sample in this step: read, printf of the row, progress
SampleStep(w) == worker[w].pc = "settle" /\ worker'[w].pc = "inner"

\* C13: a failed open and a failed row write both set the error flag and
\* message and end the sweep: the task takes no further sample.
C13_FileFailureAborts ==
  [][\A w \in Workers :
       /\ (worker[w].pc = "start" /\ worker'[w].pc # "start"
             /\ ~currentFile_'.open)
            => (hasError_' /\ errorMessage_' # "" /\ worker'[w].pc = "close")
       /\ (SampleStep(w) /\ currentFile_.open /\ ffatFull)
            => (hasError_' /\ errorMessage_' # "")]_vars

\* this step is a start that was accepted: a new run begins
StartAccepted == lastOp'.op = "start" /\ lastOp'.res = "Started"

\* C14: the error flag and message a failed run left stay as they are (and
\* so are what every progress read copies) until a start is accepted, and
\* the accepted start clears both.
C14_ErrorUntilNextRun ==
  [][/\ (hasError_ /\ ~StartAccepted)
          => (hasError_' /\ errorMessage_' = errorMessage_)
     /\ StartAccepted => (~hasError_' /\ errorMessage_' = "")]_vars

\* the VDS and VGS task w asked for before it settled
AppliedVDS(w) == IF worker[w].sweepVDS THEN worker[w].iv ELSE worker[w].ov
AppliedVGS(w) == IF worker[w].sweepVDS THEN worker[w].ov ELSE worker[w].iv

\* C15: a row written to the output file belongs to one uninterrupted
\* apply-settle-read-write step: when the task reads and writes, both DACs
\* still hold what this task applied for this row.
C15_NoTornSample ==
  [][\A w \in Workers :
       (SampleStep(w) /\ currentFile_.open)
         => (dacVDS = DacCode(AppliedVDS(w)) /\ dacVGS = DacCode(AppliedVGS(w)))]_vars

\* the characters [A-Za-z0-9_.-]
SafeChars == Letters \cup {DigitChars[i] : i \in 1..10} \cup {"_", ".", "-"}

\* what the contract asks of a name: not empty, at most 100 characters, no
\* two dots in a row, no separator, safe characters only, the .csv ending
NameRules(name) ==
  /\ Len(name) \in 1..100
  /\ ~\E i \in 1..(Len(name) - 1) : name[i] = "." /\ name[i + 1] = "."
  /\ ~\E i \in 1..Len(name) : name[i] \in {"/", "\\"}
  /\ {name[i] : i \in 1..Len(name)} \subseteq SafeChars
  /\ Len(name) >= 4
  /\ [i \in 1..4 |-> name[Len(name) - 4 + i]] = <<".", "c", "s", "v">>

\* a file request that carried reqName has been answered
NameAnswered ==
  /\ lastOp.op \in {"delete", "download", "read", "stream"}
  /\ lastOp.res \notin {"missing_file", "Missing file parameter"}

\* the request was refused by the validation
NameRefused == lastOp.res \in {"invalid_filename", "Invalid filename", "rejected"}

\* C16: a name is accepted only if it satisfies the rules of the contract;
\* "../etc/passwd", "a/b.csv" and "a b.csv" are refused and
\* "run_1700000000.csv" is accepted.
C16_ValidNameRules ==
  NameAnswered =>
    /\ ~NameRefused => NameRules(reqName)
    /\ reqName \in { <<".", ".", "/", "e", "t", "c", "/", "p", "a", "s", "s", "w", "d">>,
                     <<"a", "/", "b", ".", "c", "s", "v">>,
                     <<"a", " ", "b", ".", "c", "s", "v">> } => NameRefused
    /\ reqName = <<"r", "u", "n", "_", "1", "7", "0", "0", "0", "0", "0", "0",
                   "0", "0", ".", "c", "s", "v">> => ~NameRefused

\* a name of exactly 100 safe characters has been accepted
C16_Witness ==
  /\ NameAnswered /\ ~NameRefused
  /\ Len(reqName) = 100

\* C17: delete, read, stream and save hand FFat a path only when the name
\* it is built from has passed the validation.
C17_ValidatedBeforeFilesystem ==
  lastOp.op \in {"delete", "download", "read", "stream", "save"}
    => (fsPath # <<>> => isValidFilename(fsPath))

\* a listing has just been returned
Listed == lastOp.op = "list"

\* C19: the listing holds every file of the directory exactly once, in
\* non-decreasing order of the timestamp embedded in the names.
C19_ListOldestFirst ==
  Listed =>
    /\ Len(listing) = Cardinality(files)
    /\ {listing[i] : i \in 1..Len(listing)} = files
    /\ \A i \in 1..(Len(listing) - 1) :
         extractTimestamp(listing[i]) <= extractTimestamp(listing[i + 1])

\* a listing of at least three files that has both a strict step in the
\* timestamps and a tie
C19_Witness ==
  /\ Listed
  /\ Len(listing) >= 3
  /\ \E i \in 1..(Len(listing) - 1) :
       extractTimestamp(listing[i]) < extractTimestamp(listing[i + 1])
  /\ \E i \in 1..(Len(listing) - 1) :
       extractTimestamp(listing[i]) = extractTimestamp(listing[i + 1])

\* C18: the measurement directory never holds more than MAX_FILES files.
C18_AtMostMaxFiles == Cardinality(files) <= MAX_FILES

\* C20: the filename an accepted start reserves is not the name of a file
\* the directory already holds, so that the sweep's open truncates nothing.
C20_FreshFilename ==
  [][StartAccepted => currentFilename_' \notin files]_vars

\* C21: a log call on a full queue returns at once, the message dropped and
\* the queue as it was; no producer ever waits inside a log call.
C21_LogNeverBlocks ==
  [][(logPc = "idle" /\ logQ.created /\ Len(logQ.items) = LOG_QUEUE_DEPTH
        /\ (lastOp'.op = "log" \/ logPc' # "idle"))
       => (logPc' = "idle" /\ logQ' = logQ)]_vars

\* a task of the sweep takes this step
WorkerActs == \E w \in Workers : worker'[w] # worker[w]

\* C28: the output file handle changes (opened, closed) only in steps of a
\* sweep task; the context that handles cancel never touches it.
C28_FileOwnedByWorker ==
  [][currentFile_' # currentFile_ => WorkerActs]_vars

\* C29: between the application of a sample's voltages and its read (the
\* task waits in the settling delay) no step changes a voltage output.
C29_VoltagesHeldWhileSettling ==
  [][\A w \in Workers :
       (worker[w].pc = "settle" /\ worker'[w].pc = "settle")
         => (dacVDS' = dacVDS /\ dacVGS' = dacVGS)]_vars

\* movingAverageSmooth has returned
Smoothed == ret.fn = "movingAverageSmooth"

\* C26: the moving average returns as many elements as it was given, for
\* every window; with window 1 it returns its input, and smoothing that
\* result again with window 1 returns it once more.
C26_SmoothKeepsLength ==
  Smoothed =>
    /\ Len(ret.result) = Len(arg.data)
    /\ arg.windowSize = 1 =>
         /\ ret.result = arg.data
         /\ movingAverageSmooth(ret.result, 1) = ret.result

\* a window of 1 applied to an array of several different values
C26_Witness ==
  /\ Smoothed
  /\ arg.windowSize = 1
  /\ Len(ret.result) >= 3
  /\ ret.result[1] # ret.result[2]

\* the local slope of the current at sample i, as calculateGm differences it
LocalRise(ids, i) ==
  LET lo == IF i = 1 THEN 1 ELSE i - 1
      hi == IF i = Len(ids) THEN Len(ids) ELSE i + 1
  IN QSub(ids[hi], ids[lo])

\* C25: for a current that never decreases with the gate voltage, every
\* transconductance element is positive, except where the local slope of
\* the current is zero.
C25_GmPositive ==
  ret.fn = "calculateGm" =>
    \A i \in 1..Len(ret.result) :
      \/ QLess(QZero, ret.result[i])
      \/ LocalRise(arg.ids, i) = QZero

\* C27: calculateSS given fewer than 10 samples returns, and the result it
\* returns is marked invalid
C27_FewSamplesInvalid ==
  (arg.fn = "calculateSS" /\ Len(arg.ids) < 10)
    => /\ ENABLED callCalculateSS
       /\ ret.fn = "calculateSS" => ~ret.result.valid

C27_Witness ==
  /\ ret.fn = "calculateSS"
  /\ Len(arg.ids) = 9 /\ Len(arg.vgs) = 9
  /\ arg.ids[1] = QInt(1)
  /\ ~ret.result.valid

\* the index (from 0) of the largest transconductance of the call
VtMaxIdx == MaxElementIndex(arg.gm)

\* the peak lies within 2 samples of an end of the array, or is not positive
VtRejected ==
  \/ VtMaxIdx < 2
  \/ VtMaxIdx >= Len(arg.gm) - 2
  \/ ~QLess(QZero, arg.gm[VtMaxIdx + 1])

\* Vt = Vgs_at_max - Ids_at_max / Gm_max
VtExtrapolated ==
  QSub(arg.vgs[VtMaxIdx + 1],
       QDiv(arg.ids[VtMaxIdx + 1], arg.gm[VtMaxIdx + 1]))

VtAccepted ==
  /\ QLess(QZero, VtExtrapolated)
  /\ QLess(VtExtrapolated, arg.vgs[VtMaxIdx + 1])

\* the index (from 0) of the peak of the second derivative
VtSecondPeak == MaxElementIndex(calculateGm(arg.gm, arg.vgs, GmConfig))

C24_StubSwingNear230 ==
  (/\ ret.fn = "calculateCurveParams"
   /\ arg.curve.ids = StubCurrents
   /\ arg.curve.vgs = StubGates)
    => ret.line.ss \in 200..260

\* the number of values start, start + step, ... that do not exceed end, for
\* a range <<start, end, step>> in mV
GridCount(r) == IF r[2] < r[1] THEN 0 ELSE ((r[2] - r[1]) \div r[3]) + 1

\* the k-th value of a range
GridValue(r, k) == r[1] + (k - 1) * r[3]

\* the data rows among the lines of the file
DataRows(lines) == SelectSeq(lines, LAMBDA l : l.kind = "row")

\* the positions of the comment rows
CommentRows(lines) == { p \in 1..Len(lines) : lines[p].kind = "meta" }

\* C23: a completed run writes exactly one data row per grid point, (number
\* of outer values) x (number of inner values) rows, in nested order with
\* the inner axis varying fastest
C23_RowPerGridPoint ==
  ret.fn = "performSweep" =>
    LET outerR == IF arg.sweepVDS THEN arg.vgs ELSE arg.vds
        innerR == IF arg.sweepVDS THEN arg.vds ELSE arg.vgs
        ni == GridCount(innerR)
        rows == DataRows(ret.lines)
    IN /\ Len(rows) = GridCount(outerR) * ni
       /\ \A k \in 1..Len(rows) :
            LET o == GridValue(outerR, ((k - 1) \div ni) + 1)
                i == GridValue(innerR, ((k - 1) % ni) + 1)
            IN /\ rows[k].vds = IF arg.sweepVDS THEN i ELSE o
               /\ rows[k].vgs = IF arg.sweepVDS THEN o ELSE i

C31_SwingOnlyWhenValid ==
  ret.fn = "ssFromRegression" =>
    /\ ret.ss # QZero =>
         /\ ret.ssResult.valid
         /\ QLeq(QInt(60), ret.ss) /\ QLeq(ret.ss, QInt(2000))
    /\ ~ret.ssResult.valid =>
         /\ ret.ss = QZero
         /\ ret.ssResult.ss_mVdec = QZero
         /\ ret.hasError = FALSE /\ hasError_ = FALSE

C31_Witness ==
  /\ ret.fn = "ssFromRegression"
  /\ ret.ssResult.valid
  /\ ret.ss = QInt(2000)

\* C32: whenever a progress read reports running = false, no sweep task is
\* still executing and both voltage outputs are at zero
C32_NotRunningMeansQuiet ==
  [][(callerPc = "idle" /\ callerPc' = "progress_error"
        /\ ~status'.is_running)
       => /\ \A w \in Workers : ~Live(w)
          /\ dacVDS = 0 /\ dacVGS = 0]_vars

\* C35: the sweep task of an accepted configuration ends without a cancel
\* after finitely many samples: every sample it takes moves the loop variable
\* of the inner loop towards the end of the range
C35_EverySampleAdvances ==
  [][\A w \in Workers :
       SampleStep(w) => worker'[w].iv > worker[w].iv]_vars

\* InternalDAC::setVoltage clamps this voltage
Clamped(voltage) == voltage < 0 \/ voltage > DAC_VREF_mV

\* C37: the drain and gate voltages a data row records are the voltages the
\* sources applied for the sample: no grid point of an accepted
\* configuration is one the hardware layer clamps
C37_RowVoltagesApplied ==
  [][\A w \in Workers :
       (SampleStep(w) /\ currentFile_.open)
         => /\ ~Clamped(AppliedVDS(w)) /\ ~Clamped(AppliedVGS(w))
            /\ dacVDS = DacCode(AppliedVDS(w))
            /\ dacVGS = DacCode(AppliedVGS(w))]_vars

\* the points first .. first + len - 1 (counted from 0) of the call are all
\* valid and every two successive slopes among them pass the ratio test
IsRun(first, len, inWindow(_)) ==
  /\ len >= 1 /\ first >= 0 /\ first + len <= Len(arg.slopes)
  /\ \A i \in first..(first + len - 1) : SlopeValid(arg.slopes, i)
  /\ \A i \in (first + 1)..(first + len - 1) :
       inWindow(QDiv(arg.slopes[i + 1], arg.slopes[i]))

\* the result is the longest run, and of the longest runs the first
IsFirstLongestRun(run, inWindow(_)) ==
  LET n == Len(arg.slopes)
  IN IF run.bestLen = 0
     THEN \A first \in 0..(n - 1) : ~IsRun(first, 1, inWindow)
     ELSE /\ IsRun(run.bestStart, run.bestLen, inWindow)
          /\ \A first \in 0..(n - 1), len \in 1..n :
               IsRun(first, len, inWindow)
                 => \/ len < run.bestLen
                    \/ len = run.bestLen /\ first >= run.bestStart

\* C39 (as stated): calculateSS fits over the longest contiguous run of valid
\* points whose successive slope ratios stay within [0.5, 2.0], the first of
\* them when several share the greatest length
C39_LongestRunClosedWindow ==
  ret.fn = "longestRun" => IsFirstLongestRun(ret.run, RatioConsistent_Closed)

\* C39 (amended): the same with the ratios strictly between 0.5 and 2.0
C39_LongestRunOpenWindow ==
  ret.fn = "longestRun" =>
    IsFirstLongestRun(ret.run,
                      LAMBDA ratio : QLess(Q(1, 2), ratio)
                                       /\ QLess(ratio, QInt(2)))

C39_Witness ==
  /\ ret.fn = "longestRun"
  /\ ret.run.bestLen = 2
  /\ ret.run.bestStart = 1
  /\ \E first \in 3..(Len(arg.slopes) - 1) :
       IsRun(first, 2, RatioConsistent)

\* the last n elements of a sequence, in their order
LastN(seq, n) ==
  IF Len(seq) <= n THEN seq ELSE SubSeq(seq, Len(seq) - n + 1, Len(seq))

WrittenCopies == [i \in 1..Len(serial) |-> serial[i].copy]
QueuedCopies == [i \in 1..Len(logQ.items) |-> logQ.items[i].copy]

\* the elements of a sequence, and how often one occurs in it
Range(seq) == {seq[i] : i \in DOMAIN seq}
Count(seq, x) == Cardinality({i \in DOMAIN seq : seq[i] = x})

\* each element is smaller than the next one
Increasing(seq) == \A i \in 1..(Len(seq) - 1) : seq[i] < seq[i + 1]

\* the written and the queued messages, read together, are in the order of
\* their acceptance without repetition; a written copy was freed once, a
\* queued one not yet, and no copy was freed twice
ExactlyOnceInOrder ==
  logQ.created =>
    /\ Increasing(WrittenCopies \o QueuedCopies)
    /\ \A c \in Range(WrittenCopies) :
         Count(heap.released, c) = 1 /\ c \notin heap.live
    /\ \A c \in Range(QueuedCopies) :
         Count(heap.released, c) = 0 /\ c \in heap.live
    /\ \A c \in Range(heap.released) :
         Count(heap.released, c) = 1 /\ c \notin heap.live

\* a copy freed without having been written is not written afterwards
DroppedStaysUnwritten ==
  \A c \in 1..MaxCopies :
    (c \in Range(heap.released) /\ c \notin Range(WrittenCopies))
      => c \notin Range([i \in 1..Len(serial') |-> serial'[i].copy])

C36_MutexFreeAfterReturn ==
  \A c \in Callers :
    mutex_.holder = c => starting[c].pc \in {"in", "checked"}

\* a start that held the mutex has just returned for an invalid filename
C36_Witness ==
  /\ mutex_.created
  /\ lastOp.op = "start"
  /\ lastOp.res = "InvalidFilename"
  /\ mutex_.holder = 0
  /\ \A c \in Callers : starting[c].pc = "out"

\* C34: of two starts issued at once against an idle controller at most one
\* is accepted and spawns a sweep task: two sweep tasks never run together.
C34_OneStartAccepted ==
  Cardinality({w \in Workers : Live(w)}) <= 1

\* a start was accepted since the cancel that is waiting began
StartedDuringCancel == callerPc = "cancel_wait" /\ cancelAt = "none"

\* C33: a cancel touches only the run that was active when it was issued: the
\* end of its wait neither closes nor deletes the file of a run started
\* after the cancel began, nor marks that run as not running.
C33_CancelSparesLaterRun ==
  [][(StartedDuringCancel /\ callerPc' = "idle")
       => /\ currentFile_' = currentFile_
          /\ files' = files
          /\ measuring_' = measuring_]_vars

====
